---------------------------- MODULE Spec2Model ----------------------------
(***************************************************************************)
(* A model of the FUGL scene-graph converter (Figma -> CUGL JSON).         *)
(*                                                                         *)
(* Strings are sequences of one-character strings, so that split(":"),     *)
(* toLowerCase() and the identifier regular expression are computed        *)
(* character by character.  Lengths are integers in units of 0.005 (two    *)
(* units make 0.01), so that roundToFixed(v, 2) is a real rounding.        *)
(*                                                                         *)
(* The module holds several specifications over one set of variables:      *)
(*   SpecParse   generateNode on one node (name parsing and dispatch)      *)
(*   SpecKeys    the key-assignment loop of genChildrenByAnchor/ByFloat    *)
(*   SpecAsync   the settling of the promises of one export                *)
(*   SpecExport  a sequence of "generate" events and the resource tables   *)
(*   SpecFlip    the position computed by each builder                     *)
(*   SpecLayout  one node laid out as root, Anchored or Float child        *)
(*   SpecContainer  genFrame / genButton on a container of text layers     *)
(*   SpecFloat   genChildrenByFloat with children settling in any order    *)
(*   SpecShape   generateNode on a rectangle or an ellipse                 *)
(*   SpecScene   genFrame on a root frame with a text and a rectangle      *)
(***************************************************************************)
EXTENDS Integers, Sequences, FiniteSets, TLC

(***************************************************************************)
(* Bounds of the model.                                                    *)
(***************************************************************************)
MaxNameLen == 2

(***************************************************************************)
(* Characters and strings.                                                 *)
(***************************************************************************)
LowerLetters == {"a", "b", "d", "e", "g", "i", "l", "n", "o", "p", "t", "u", "w"}

UpperLetters == {"B", "D", "E", "P", "U"}

Digits == {"0", "1", "2"}

\* The characters a free name part is drawn from: a lower-case letter, an
\* upper-case letter, the underscore, a digit, a blank and the colon.
Alphabet == {"a", "B", "_", "1", " ", ":"}

Str(n) == UNION {[1..k -> Alphabet] : k \in 0..n}

\* String.prototype.toLowerCase on one character of the modelled alphabet.
LowerChar(c) ==
    CASE c = "B" -> "b"
      [] c = "D" -> "d"
      [] c = "E" -> "e"
      [] c = "P" -> "p"
      [] c = "U" -> "u"
      [] OTHER -> c

ToLowerCase(s) == [i \in 1..Len(s) |-> LowerChar(s[i])]

ColonPositions(s) == {i \in 1..Len(s) : s[i] = ":"}

\* String.prototype.split(":"): the components between the colons; a string
\* without colon (the empty string too) gives one component.
RECURSIVE Split(_)
Split(s) ==
    IF ColonPositions(s) = {}
    THEN <<s>>
    ELSE LET k == CHOOSE i \in ColonPositions(s) :
                      \A j \in ColonPositions(s) : i <= j
         IN  <<SubSeq(s, 1, k - 1)>> \o Split(SubSeq(s, k + 1, Len(s)))

\* A mutant of isIdentifier: the first character may be a digit.
IsIdentifierDigitFirst(str) ==
    /\ Len(str) >= 1
    /\ \A i \in 1..Len(str) : str[i] \in LowerLetters \cup UpperLetters \cup Digits \cup {"_"}

\* /^[a-zA-Z_][a-zA-Z_0-9]*$/.test(str)
IsIdentifier(str) ==
    /\ Len(str) >= 1
    /\ str[1] \in LowerLetters \cup UpperLetters \cup {"_"}
    /\ \A i \in 2..Len(str) : str[i] \in LowerLetters \cup UpperLetters \cup Digits \cup {"_"}

(***************************************************************************)
(* generateNode: the name parsing (index.ts 70-89).                        *)
(* The result holds the locals `name` and `special` (hasSpecial is FALSE   *)
(* when special is undefined) and the error thrown, "none" when none.      *)
(***************************************************************************)
NoString == <<>>

\* A mutant of the parsing: the keyword is not lower-cased.
ParseNameKeepCase(nodeName) ==
    LET components == Split(nodeName)
    IN  IF Len(components) = 1
        THEN IF IsIdentifier(components[1])
             THEN [error |-> "none", hasSpecial |-> FALSE, special |-> NoString,
                   name |-> components[1]]
             ELSE [error |-> "identifier", hasSpecial |-> FALSE, special |-> NoString,
                   name |-> components[1]]
        ELSE IF Len(components) = 2
        THEN [error |-> "none", hasSpecial |-> TRUE,
              special |-> components[1], name |-> components[2]]
        ELSE [error |-> "colons", hasSpecial |-> FALSE, special |-> NoString,
              name |-> NoString]

ParseName(nodeName) ==
    LET components == Split(nodeName)
    IN  IF Len(components) = 1
        THEN IF IsIdentifier(components[1])
             THEN [error |-> "none", hasSpecial |-> FALSE, special |-> NoString,
                   name |-> components[1]]
             ELSE [error |-> "identifier", hasSpecial |-> FALSE, special |-> NoString,
                   name |-> components[1]]
        ELSE IF Len(components) = 2
        THEN [error |-> "none", hasSpecial |-> TRUE,
              special |-> ToLowerCase(components[1]), name |-> components[2]]
        ELSE [error |-> "colons", hasSpecial |-> FALSE, special |-> NoString,
              name |-> NoString]


(***************************************************************************)
(* generateNode: the dispatch (index.ts 91-131).                           *)
(***************************************************************************)
EDIT == <<"e", "d", "i", "t">>

BUTTON == <<"b", "u", "t", "t", "o", "n">>

UP == <<"u", "p">>

DOWN == <<"d", "o", "w", "n">>

NodeTypes == {"TEXT", "FRAME", "RECTANGLE", "ELLIPSE", "GROUP", "STAR"}

\* The types of the paints of node.fills that the dispatch tells apart.
FillTypes == {"SOLID", "IMAGE"}

\* node.fills: figma.mixed, or the list of the paints' types.
MixedFills == [mixed |-> TRUE, paints |-> <<>>]

Paints(ps) == [mixed |-> FALSE, paints |-> ps]

SolidFill == Paints(<<"SOLID">>)

\* node.fills !== figma.mixed && node.fills?.[0]?.type === "IMAGE"
\* (index.ts 115; genImage tests the negation, image.ts 36).
FirstFillIsImage(n) ==
    /\ ~n.fills.mixed
    /\ Len(n.fills.paints) >= 1
    /\ n.fills.paints[1] = "IMAGE"

\* Dispatch with the default case of the keyword switch left out: an
\* unrecognised keyword falls through to the switch on node.type.
DispatchWithoutKeywordDefault(n) ==
    LET p == ParseName(n.name)
    IN  IF p.error # "none"
        THEN [error |-> p.error, builder |-> "none"]
        ELSE IF p.hasSpecial /\ p.special = EDIT
        THEN [error |-> "none", builder |-> "genTextField"]
        ELSE IF p.hasSpecial /\ p.special = BUTTON
        THEN [error |-> "none", builder |-> "genButton"]
        ELSE CASE n.type = "TEXT" -> [error |-> "none", builder |-> "genLabel"]
               [] n.type = "FRAME" -> [error |-> "none", builder |-> "genFrame"]
               [] n.type = "RECTANGLE" ->
                      IF FirstFillIsImage(n)
                      THEN [error |-> "none", builder |-> "genImage"]
                      ELSE [error |-> "none", builder |-> "genRectangle"]
               [] n.type = "ELLIPSE" -> [error |-> "none", builder |-> "genEllipse"]
               [] OTHER -> [error |-> "unsupported", builder |-> "none"]

\* The builder generateNode hands the node to, or the error it throws itself.
\* Every scene node has a `name` (the test of line 72 is always true), so the
\* "Internal node is missing a name" error of line 88 is never thrown.
Dispatch(n) ==
    LET p == ParseName(n.name)
    IN  IF p.error # "none"
        THEN [error |-> p.error, builder |-> "none"]
        ELSE IF p.hasSpecial /\ p.special = EDIT
        THEN [error |-> "none", builder |-> "genTextField"]
        ELSE IF p.hasSpecial /\ p.special = BUTTON
        THEN [error |-> "none", builder |-> "genButton"]
        ELSE IF p.hasSpecial /\ p.special \notin {UP, DOWN}
        THEN [error |-> "keyword", builder |-> "none"]
        ELSE CASE n.type = "TEXT" -> [error |-> "none", builder |-> "genLabel"]
               [] n.type = "FRAME" -> [error |-> "none", builder |-> "genFrame"]
               [] n.type = "RECTANGLE" ->
                      IF FirstFillIsImage(n)
                      THEN [error |-> "none", builder |-> "genImage"]
                      ELSE [error |-> "none", builder |-> "genRectangle"]
               [] n.type = "ELLIPSE" -> [error |-> "none", builder |-> "genEllipse"]
               [] OTHER -> [error |-> "unsupported", builder |-> "none"]

\* BuilderStart with the type test of genTextField left out.
BuilderStartWithoutTextTest(builder, n) ==
    CASE builder = "genTextField" -> [error |-> "none", type |-> "TextField"]
      [] builder = "genButton" ->
             IF n.nchildren = 0
             THEN [error |-> "button", type |-> "none"]
             ELSE [error |-> "none", type |-> "Button"]
      [] builder = "genLabel" -> [error |-> "none", type |-> "Label"]
      [] builder = "genFrame" -> [error |-> "none", type |-> "Node"]
      [] builder = "genImage" -> [error |-> "none", type |-> "Image"]
      [] builder = "genRectangle" -> [error |-> "none", type |-> "Solid"]
      [] builder = "genEllipse" -> [error |-> "none", type |-> "Solid"]
      [] OTHER -> [error |-> "none", type |-> "none"]

\* What the builder does before it converts any child: the error it throws
\* at once, or the type of the node it builds.
\*   genTextField  text.ts (part_002) 83-86
\*   genButton     button.ts (textField.ts) 80-82
BuilderStart(builder, n) ==
    CASE builder = "genTextField" ->
             IF n.type # "TEXT"
             THEN [error |-> "edit", type |-> "none"]
             ELSE [error |-> "none", type |-> "TextField"]
      [] builder = "genButton" ->
             IF n.nchildren = 0
             THEN [error |-> "button", type |-> "none"]
             ELSE [error |-> "none", type |-> "Button"]
      [] builder = "genLabel" -> [error |-> "none", type |-> "Label"]
      [] builder = "genFrame" -> [error |-> "none", type |-> "Node"]
      [] builder = "genImage" -> [error |-> "none", type |-> "Image"]
      [] builder = "genRectangle" -> [error |-> "none", type |-> "Solid"]
      [] builder = "genEllipse" -> [error |-> "none", type |-> "Solid"]
      [] OTHER -> [error |-> "none", type |-> "none"]

\* generateNode on a node, up to the conversion of its children.
GenerateNodeStart(n) ==
    LET d == Dispatch(n)
    IN  IF d.error # "none"
        THEN [error |-> d.error, type |-> "none"]
        ELSE BuilderStart(d.builder, n)

(***************************************************************************)
(* Children keys (children.ts = part_003 157-187 and 311-331).             *)
(***************************************************************************)
DigitChars == <<"0", "1", "2", "3", "4", "5", "6", "7", "8", "9">>

\* Number.prototype.toString() of an index.
RECURSIVE IndexToString(_)
IndexToString(i) ==
    IF i < 10
    THEN <<DigitChars[i + 1]>>
    ELSE IndexToString(i \div 10) \o <<DigitChars[(i % 10) + 1]>>

\* The part of a display name after its last colon (the whole name without).
Suffix(nodeName) ==
    LET components == Split(nodeName)
    IN  components[Len(components)]

\* `suffix in result ? suffix_index : suffix`.  (In JavaScript `in` also
\* finds the properties every object inherits, such as "toString"; no name
\* of the modelled alphabet spells one.)
ChildKey(suffix, index, res) ==
    IF suffix \in DOMAIN res
    THEN suffix \o <<"_">> \o IndexToString(index)
    ELSE suffix

\* result[key] = child: a new entry, or the entry of that key overwritten.
Store(res, key, child) ==
    [k \in (DOMAIN res) \cup {key} |-> IF k = key THEN child ELSE res[k]]

EmptyRecord == [k \in {} |-> 0]

\* The forEach loop over the generated children, from position `index`
\* (1-based here, 0-based in the key) on; each child is stored as its
\* document index.
RECURSIVE AssignKeys(_, _, _)
AssignKeys(names, index, res) ==
    IF index > Len(names)
    THEN res
    ELSE AssignKeys(names, index + 1,
                    Store(res, ChildKey(Suffix(names[index]), index - 1, res),
                          index - 1))

(***************************************************************************)
(* Positions.  Lengths are integers in units of 0.005.                     *)
(***************************************************************************)
\* roundToFixed(value, 2) (util.ts 30-38): 0 within 0.00001 of 0, otherwise
\* Math.round(value * 100) / 100, and Math.round rounds a half upwards.
RoundToFixed(value) ==
    IF value = 0 THEN 0 ELSE 2 * ((value + 1) \div 2)

\* A mutant of the flip: the parent's height is used whenever it is defined.
YPosDefinedHeight(parentHeight, n) ==
    IF parentHeight.defined
    THEN parentHeight.value - n.height - n.y
    ELSE 0 - n.y

\* `parent.height ? parent.height - node.height - node.y : -node.y`: an
\* undefined height and the height 0 are both falsy.
YPos(parentHeight, n) ==
    IF parentHeight.defined /\ parentHeight.value # 0
    THEN parentHeight.value - n.height - n.y
    ELSE 0 - n.y

Builders == {"genFrame", "genButton", "genLabel", "genTextField", "genImage",
             "genRectangle", "genEllipse"}

\* data.position of the node each builder returns.
\*   genFrame      frame.ts 66-74        genButton  textField.ts 140-148
\*   genLabel      part_002 41-47        genTextField part_002 100-106
\*   genImage      image.ts 48-58
\*   genRectangle  part_003 514-524, 598 genEllipse part_003 630-640, 706
BuilderPositionUnflipped(builder, parentHeight, n) ==
    IF builder \in {"genLabel", "genTextField"}
    THEN <<n.x, n.y>>
    ELSE <<RoundToFixed(n.x), RoundToFixed(n.y)>>

BuilderPosition(builder, parentHeight, n) ==
    IF builder \in {"genLabel", "genTextField"}
    THEN <<n.x, YPos(parentHeight, n)>>
    ELSE <<RoundToFixed(n.x), RoundToFixed(YPos(parentHeight, n))>>

(***************************************************************************)
(* Layout of a child in its container (children.ts = part_003).  Anchor    *)
(* fractions and positions of output nodes are kept doubled (anchor2,      *)
(* position2), so that 0.5 and the half of a length are integers; layout   *)
(* offsets are ratios, kept in hundredths once rounded.                    *)
(***************************************************************************)
\* child.constraints.horizontal / vertical; "undefined" when the child has
\* no constraints.
ConstraintTypes == {"MIN", "CENTER", "MAX", "STRETCH", "SCALE", "undefined"}

\* convertXAnchor (util.ts 171-190): <<twice the anchor fraction, x_anchor>>.
ConvertXAnchor(value) ==
    CASE value = "MIN" -> <<0, "left">>
      [] value = "CENTER" -> <<1, "center">>
      [] value = "MAX" -> <<2, "right">>
      [] value = "STRETCH" -> <<1, "fill">>
      [] OTHER -> <<0, "left">>

\* convertYAnchor with the fractions of MIN and MAX as on the x axis.
ConvertYAnchorUnflipped(value) ==
    CASE value = "MIN" -> <<0, "top">>
      [] value = "CENTER" -> <<1, "middle">>
      [] value = "MAX" -> <<2, "bottom">>
      [] value = "STRETCH" -> <<1, "fill">>
      [] OTHER -> <<0, "bottom">>

\* convertYAnchor (util.ts 196-215): <<twice the anchor fraction, y_anchor>>.
ConvertYAnchor(value) ==
    CASE value = "MIN" -> <<2, "top">>
      [] value = "CENTER" -> <<1, "middle">>
      [] value = "MAX" -> <<0, "bottom">>
      [] value = "STRETCH" -> <<1, "fill">>
      [] OTHER -> <<0, "bottom">>

\* Twice getCenter(node) (part_003 116-122); m is the 2x2 part of
\* node.relativeTransform.
GetCenter2(n) ==
    <<2 * n.x + n.m[1][1] * n.width + n.m[1][2] * n.height,
      2 * n.y + n.m[2][1] * n.width + n.m[2][2] * n.height>>

\* The ratio cut to two decimals instead of rounded.
RoundedRatioTruncated(num, den) == (100 * num) \div den

\* roundToFixed(num / den, 2) in hundredths, for den > 0.
RoundedRatio(num, den) ==
    IF num = 0 THEN 0 ELSE (200 * num + den) \div (2 * den)

\* The data of the node a builder returns, as far as the layout reads and
\* writes it: anchor [0, 0], the flipped position, the angle.
BuilderData(builder, parentHeight, n) ==
    LET p == BuilderPosition(builder, parentHeight, n)
    IN  [anchor2 |-> <<0, 0>>, position2 |-> <<2 * p[1], 2 * p[2]>>,
         angle |-> n.rotation]

\* layoutByAnchor (part_003 206-293) with absolute = false (313).
LayoutByAnchor(c) ==
    LET parent == c.parent
        xa == ConvertXAnchor(c.horizontal)
        ya == ConvertYAnchor(c.vertical)
        data == BuilderData(c.builder, [defined |-> TRUE, value |-> parent.height], c)
        rotated == c.rotation # 0
        center == GetCenter2(c)
        x0 == IF rotated THEN center[1] ELSE data.position2[1]
        y0 == IF ~rotated
              THEN data.position2[2]
              ELSE IF parent.height # 0
              THEN 2 * parent.height - center[2]
              ELSE 0 - center[2]
        x2 == IF rotated
              THEN CASE xa[2] = "right" -> x0 - 2 * parent.width
                     [] xa[2] \in {"center", "fill"} -> x0 - parent.width
                     [] OTHER -> x0
              ELSE CASE xa[2] = "center" -> x0 + c.width - parent.width
                     [] xa[2] = "right" -> x0 + 2 * c.width - 2 * parent.width
                     [] OTHER -> x0
        y2 == IF rotated
              THEN CASE ya[2] = "top" -> y0 - 2 * parent.height
                     [] ya[2] \in {"middle", "fill"} -> y0 - parent.height
                     [] OTHER -> y0
              ELSE CASE ya[2] = "middle" -> y0 + c.height - parent.height
                     [] ya[2] = "top" -> y0 + 2 * c.height - 2 * parent.height
                     [] OTHER -> y0
    IN  [data |-> [data EXCEPT !.anchor2 = IF rotated THEN <<1, 1>>
                                            ELSE <<xa[1], ya[1]>>],
         layout |-> [type |-> "anchor", x_anchor |-> xa[2], y_anchor |-> ya[2],
                     absolute |-> FALSE,
                     x_offset |-> RoundedRatio(x2, 2 * parent.width),
                     y_offset |-> RoundedRatio(y2, 2 * parent.height)]]

\* FloatPadding with the last child tested as `index == count`.
FloatPaddingLastOffByOne(parent, index, count) ==
    LET mode == parent.layoutMode = "HORIZONTAL"
        startPadding ==
            IF mode
            THEN <<parent.paddingLeft, parent.paddingBottom, parent.itemSpacing,
                   parent.paddingTop>>
            ELSE <<parent.paddingLeft, parent.itemSpacing, parent.paddingRight,
                   parent.paddingTop>>
        interPadding ==
            IF mode
            THEN <<0, parent.paddingBottom, parent.itemSpacing, parent.paddingTop>>
            ELSE <<parent.paddingLeft, parent.itemSpacing, parent.paddingRight, 0>>
        finalPadding ==
            IF mode
            THEN <<0, parent.paddingBottom, parent.paddingRight, parent.paddingTop>>
            ELSE <<parent.paddingLeft, parent.paddingBottom, parent.paddingRight, 0>>
    IN  IF index = 0 THEN startPadding
        ELSE IF index = count THEN finalPadding
        ELSE interPadding

\* The padding of the child at `index` of `count` (part_003 149-155, 176-177),
\* as [left, bottom, right, top].
FloatPadding(parent, index, count) ==
    LET mode == parent.layoutMode = "HORIZONTAL"
        startPadding ==
            IF mode
            THEN <<parent.paddingLeft, parent.paddingBottom, parent.itemSpacing,
                   parent.paddingTop>>
            ELSE <<parent.paddingLeft, parent.itemSpacing, parent.paddingRight,
                   parent.paddingTop>>
        interPadding ==
            IF mode
            THEN <<0, parent.paddingBottom, parent.itemSpacing, parent.paddingTop>>
            ELSE <<parent.paddingLeft, parent.itemSpacing, parent.paddingRight, 0>>
        finalPadding ==
            IF mode
            THEN <<0, parent.paddingBottom, parent.paddingRight, parent.paddingTop>>
            ELSE <<parent.paddingLeft, parent.paddingBottom, parent.paddingRight, 0>>
    IN  IF index = 0 THEN startPadding
        ELSE IF index = count - 1 THEN finalPadding
        ELSE interPadding

\* The body of the forEach of genChildrenByFloat (part_003 166-185) for the
\* child at `index`, but for its key.
LayoutByFloat(c) ==
    LET data == BuilderData(c.builder, [defined |-> TRUE, value |-> c.parent.height], c)
    IN  [data |-> [data EXCEPT !.position2 = GetCenter2(c), !.anchor2 = <<1, 1>>],
         layout |-> [type |-> "float", priority |-> c.index,
                     padding |-> FloatPadding(c.parent, c.index, c.count)]]

(***************************************************************************)
(* Containers: genFrame (frame.ts 39-81) and genButton (button.ts =        *)
(* textField.ts 79-160).                                                   *)
(***************************************************************************)
PrimaryAlignments == {"MIN", "MAX", "CENTER", "SPACE_BETWEEN"}

CounterAlignments == {"MIN", "MAX", "CENTER", "BASELINE"}

\* convertXAlign (util.ts 127-143): the name, or the value it throws on.
ConvertXAlign(value) ==
    CASE value = "MIN" -> [error |-> FALSE, name |-> "left"]
      [] value = "MAX" -> [error |-> FALSE, name |-> "right"]
      [] value = "CENTER" -> [error |-> FALSE, name |-> "center"]
      [] OTHER -> [error |-> TRUE, name |-> value]

\* convertYAlign (util.ts 149-165).
ConvertYAlign(value) ==
    CASE value = "MIN" -> [error |-> FALSE, name |-> "top"]
      [] value = "MAX" -> [error |-> FALSE, name |-> "bottom"]
      [] value = "CENTER" -> [error |-> FALSE, name |-> "middle"]
      [] OTHER -> [error |-> TRUE, name |-> value]

\* convertLayoutMode (util.ts 113-121).
ConvertLayoutMode(value) ==
    IF value = "HORIZONTAL" THEN "horizontal" ELSE "vertical"

\* The format with both alignments taken from the primary axis first.
ContainerFormatAxesSwapped(n) ==
    IF n.layoutMode = "NONE"
    THEN [error |-> "none", format |-> [type |-> "Anchored"]]
    ELSE LET x == ConvertXAlign(IF n.layoutMode = "HORIZONTAL"
                                THEN n.counterAxisAlignItems
                                ELSE n.primaryAxisAlignItems)
             y == ConvertYAlign(IF n.layoutMode = "HORIZONTAL"
                                THEN n.primaryAxisAlignItems
                                ELSE n.counterAxisAlignItems)
         IN  IF x.error
             THEN [error |-> "alignment", value |-> x.name]
             ELSE IF y.error
             THEN [error |-> "alignment", value |-> y.name]
             ELSE [error |-> "none",
                   format |-> [type |-> "Float", x_alignment |-> x.name,
                               y_alignment |-> y.name,
                               orientation |-> ConvertLayoutMode(n.layoutMode)]]

\* The format of a container (frame.ts 43-64, textField.ts 117-138), or the
\* error of the first alignment that does not convert.
ContainerFormat(n) ==
    IF n.layoutMode = "NONE"
    THEN [error |-> "none", format |-> [type |-> "Anchored"]]
    ELSE LET x == ConvertXAlign(IF n.layoutMode = "HORIZONTAL"
                                THEN n.primaryAxisAlignItems
                                ELSE n.counterAxisAlignItems)
             y == ConvertYAlign(IF n.layoutMode = "HORIZONTAL"
                                THEN n.counterAxisAlignItems
                                ELSE n.primaryAxisAlignItems)
         IN  IF x.error
             THEN [error |-> "alignment", value |-> x.name]
             ELSE IF y.error
             THEN [error |-> "alignment", value |-> y.name]
             ELSE [error |-> "none",
                   format |-> [type |-> "Float", x_alignment |-> x.name,
                               y_alignment |-> y.name,
                               orientation |-> ConvertLayoutMode(n.layoutMode)]]

\* buttonNames after the children from `index` on have been read
\* (textField.ts 84-112): the text before the colon of a name with one
\* colon, as written, maps to the suffix; a lone child without such a tag
\* is filed under "up".
RECURSIVE ButtonNames(_, _, _)
ButtonNames(names, index, bn) ==
    IF index > Len(names)
    THEN bn
    ELSE LET components == Split(names[index])
             suffix == components[Len(components)]
         IN  ButtonNames(names, index + 1,
                         IF Len(components) = 2
                         THEN Store(bn, components[1], suffix)
                         ELSE IF Len(names) = 1
                         THEN Store(bn, UP, suffix)
                         ELSE bn)

\* firstButton: the suffix of the first child.
FirstButton(names) == Suffix(names[1])

\* upnode and downnode of the Button (textField.ts 149, 154-156).
ButtonSlots(names) ==
    LET bn == ButtonNames(names, 1, EmptyRecord)
    IN  [upnode |-> IF UP \in DOMAIN bn THEN bn[UP] ELSE FirstButton(names),
         downnode |-> IF DOWN \in DOMAIN bn
                      THEN [defined |-> TRUE, value |-> bn[DOWN]]
                      ELSE [defined |-> FALSE, value |-> NoString]]

(***************************************************************************)
(* Shapes: genRectangle and genEllipse (shape.ts = part_003 504-717).      *)
(* Lengths and angles are in units of 0.005.  A polygon is kept as the     *)
(* arguments of the call that computes it; a rounded rectangle also has    *)
(* its points, an arc point as its place on the arc.                       *)
(***************************************************************************)
\* const tol = 0.5 (curveSegs)
Tol == 100

\* Math.acos(rad / (rad + tol)) is NaN when the quotient is outside [-1, 1]:
\* rad + tol <= 0, or rad < -tol / 2.  Then Math.max(2, NaN) is NaN.
CurveSegsIsNaN(rad) == 2 * rad < 0 - Tol

\* curveSegs(rad, Math.PI / 2) (part_003 358-362) when it is a number:
\* max(2, ceil(pi / (4 acos(rad / (rad + tol))))).  It is at most k exactly
\* when rad <= tol * c / (1 - c) with c = cos(pi / (4 k)): 6.0685 for k = 2,
\* 14.174 for 3, 25.52 for 4, 40.11 for 5, 57.94 for 6.  For rad up to 79.
CurveSegs(rad) ==
    CASE rad <= 1213 -> 2
      [] rad > 1213 /\ rad <= 2834 -> 3
      [] rad > 2834 /\ rad <= 5104 -> 4
      [] rad > 5104 /\ rad <= 8022 -> 5
      [] rad > 8022 /\ rad <= 11588 -> 6
      [] OTHER -> 7

\* The four corners in the order roundedRect walks them (part_003 404-488):
\* the box corner (x, y), the radius r and the arc centre (cx, cy).
RectCorners(w, h, tl, tr, br, bl) ==
    LET c1x == IF w >= 0 THEN w ELSE 0
        c1y == IF h >= 0 THEN h ELSE 0
        c2x == IF w >= 0 THEN 0 ELSE w
        c2y == IF h >= 0 THEN h ELSE 0
        c3x == IF w >= 0 THEN 0 ELSE w
        c3y == IF h >= 0 THEN 0 ELSE h
        c4x == IF w >= 0 THEN w ELSE 0
        c4y == IF h >= 0 THEN 0 ELSE h
    IN  << [corner |-> "tr", r |-> tr, x |-> c1x, y |-> c1y, cx |-> c1x - tr, cy |-> c1y - tr],
           [corner |-> "tl", r |-> tl, x |-> c2x, y |-> c2y, cx |-> c2x + tl, cy |-> c2y - tl],
           [corner |-> "bl", r |-> bl, x |-> c3x, y |-> c3y, cx |-> c3x + bl, cy |-> c3y + bl],
           [corner |-> "br", r |-> br, x |-> c4x, y |-> c4y, cx |-> c4x - br, cy |-> c4y + br] >>

\* The points of the arc of a corner: point ii of segs is at angle
\* ii * pi / (2 segs) on the circle of radius r around (cx, cy), rounded.
ArcPoints(c, segs) ==
    [k \in 1..(segs + 1) |->
        [corner |-> c.corner, r |-> c.r, ii |-> k - 1, segs |-> segs,
         cx |-> c.cx, cy |-> c.cy]]

\* The corners from i on.  A corner of radius 0 is one point; another
\* corner is an arc of curveSegs + 1 points.  When curveSegs is NaN the
\* loop body never runs and off becomes NaN, so that every later write
\* sets the property "NaN" of the array and adds no element.
RECURSIVE RoundedRectFrom(_, _, _)
RoundedRectFrom(corners, i, points) ==
    IF i > Len(corners)
    THEN points
    ELSE LET c == corners[i]
         IN  IF c.r = 0
             THEN RoundedRectFrom(corners, i + 1,
                      Append(points, [corner |-> c.corner, x |-> c.x, y |-> c.y]))
             ELSE IF CurveSegsIsNaN(c.r)
             THEN points
             ELSE RoundedRectFrom(corners, i + 1,
                      points \o ArcPoints(c, CurveSegs(c.r)))

\* roundedRect (part_003 401-488): the call and the points it returns.
RoundedRect(w, h, tl, tr, br, bl) ==
    [shape |-> "roundedRect", w |-> w, h |-> h,
     tl |-> tl, tr |-> tr, br |-> br, bl |-> bl,
     points |-> RoundedRectFrom(RectCorners(w, h, tl, tr, br, bl), 1, <<>>)]

\* const epsilon = 0.5
Epsilon == 100

\* The change of a stroke dimension by the epsilon alone.
StrokeOffsetByEpsilon(n, v) ==
    CASE n.strokeAlign = "INSIDE" -> v - Epsilon
      [] n.strokeAlign = "OUTSIDE" -> v + Epsilon
      [] OTHER -> v

\* The change of a stroke dimension (part_003 536-553, 652-661).
StrokeOffset(n, v) ==
    CASE n.strokeAlign = "INSIDE" -> v - (n.strokeWeight - Epsilon)
      [] n.strokeAlign = "OUTSIDE" -> v + (n.strokeWeight - Epsilon)
      [] OTHER -> v

\* The Path child of a stroked shape (part_003 556-576, 664-684).
EdgeCode(n, edge) ==
    [type |-> "Path",
     data |-> [path |-> [vertices |-> edge, closed |-> TRUE],
               stroke |-> n.strokeWeight, joint |-> "square",
               anchor2 |-> <<1, 1>>, position |-> <<0, 0>>],
     layout |-> [x_anchor |-> "center", y_anchor |-> "middle"]]

\* The Solid child of a stroked shape (part_003 578-583, 686-691).
FillCode(polygon) ==
    [type |-> "Solid",
     data |-> [polygon |-> polygon, anchor2 |-> <<1, 1>>, position |-> <<0, 0>>],
     layout |-> [x_anchor |-> "center", y_anchor |-> "middle"]]

\* The Node holding both (part_003 585-604, 693-712).
GroupCode(n, parentHeight, polygon, edge, angle) ==
    [type |-> "Node",
     format |-> [type |-> "Anchored"],
     data |-> [anchor2 |-> <<0, 0>>, angle |-> angle,
               size |-> IF n.strokeAlign = "OUTSIDE"
                        THEN <<RoundToFixed(edge.w), RoundToFixed(edge.h)>>
                        ELSE <<RoundToFixed(n.width), RoundToFixed(n.height)>>,
               position |-> BuilderPosition("genRectangle", parentHeight, n)],
     children |-> [fill |-> FillCode(polygon), stroke |-> EdgeCode(n, edge)]]

\* The Solid of a shape without stroke (part_003 517-527, 607).
PolyCode(n, parentHeight, polygon) ==
    [type |-> "Solid",
     data |-> [polygon |-> polygon, anchor2 |-> <<0, 0>>,
               position |-> BuilderPosition("genRectangle", parentHeight, n),
               angle |-> n.rotation]]

\* The radii as roundedRect takes them (part_003 508-511), unchanged.
RemapRadiiUnflipped(n) ==
    [tl |-> n.topLeftRadius, tr |-> n.topRightRadius,
     br |-> n.bottomRightRadius, bl |-> n.bottomLeftRadius]

\* The radii as roundedRect takes them (part_003 507-511): "Figma's
\* coordinates are upside-down".
RemapRadii(n) ==
    [tl |-> n.bottomLeftRadius, tr |-> n.bottomRightRadius,
     br |-> n.topRightRadius, bl |-> n.topLeftRadius]

\* genRectangle (part_003 504-609).
GenRectangle(n, parentHeight) ==
    LET r == RemapRadii(n)
        polygon == RoundedRect(n.width, n.height, r.tl, r.tr, r.br, r.bl)
        edge == RoundedRect(StrokeOffset(n, n.width), StrokeOffset(n, n.height),
                            StrokeOffset(n, r.tl), StrokeOffset(n, r.tr),
                            StrokeOffset(n, r.br), StrokeOffset(n, r.bl))
    IN  IF n.strokes > 0
        THEN GroupCode(n, parentHeight, polygon, edge, RoundToFixed(n.rotation))
        ELSE PolyCode(n, parentHeight, polygon)

\* genEllipse (part_003 625-717); segs counts in units of
\* curveSegs(max(width, height) / 2, 2 pi).
GenEllipse(n, parentHeight) ==
    LET polygon == [shape |-> "ellipse", w |-> n.width, h |-> n.height, segs |-> 1]
        edge == [shape |-> "ellipse", w |-> StrokeOffset(n, n.width),
                 h |-> StrokeOffset(n, n.height), segs |-> 2]
    IN  IF n.strokes > 0
        THEN GroupCode(n, parentHeight, polygon, edge, n.rotation)
        ELSE PolyCode(n, parentHeight, polygon)

(***************************************************************************)
(* genChildrenByFloat as a whole (part_003 147-188): the children settle   *)
(* in any order, Promise.all files each under its index, and the forEach   *)
(* assembles the children map.                                             *)
(***************************************************************************)
\* Promise.all files the value of the promise at `index` in the slot of
\* that index; `settled` is the number of promises settled before.  This
\* variant files it in the next free slot.
ResolveElementInSettlingOrder(values, index, settled, v) ==
    [k \in (DOMAIN values) \cup {settled} |-> IF k = settled THEN v ELSE values[k]]

ResolveElement(values, index, settled, v) ==
    [k \in (DOMAIN values) \cup {index} |-> IF k = index THEN v ELSE values[k]]

\* The forEach of genChildrenByFloat from `index` on (part_003 166-185):
\* an entry keeps the child its node was generated from (src), the child
\* getCenter was applied to, the priority and the padding.
RECURSIVE FloatForEach(_, _, _, _)
FloatForEach(parent, generatedChildren, index, res) ==
    IF index \notin DOMAIN generatedChildren
    THEN res
    ELSE LET count == Cardinality(DOMAIN generatedChildren)
             key == ChildKey(Suffix(generatedChildren[index].name), index, res)
         IN  FloatForEach(parent, generatedChildren, index + 1,
                          Store(res, key,
                                [src |-> generatedChildren[index].src,
                                 centre |-> index,
                                 priority |-> index,
                                 padding |-> FloatPadding(parent, index, count)]))

(***************************************************************************)
(* genChildrenByAnchor as a whole (part_003 311-331).                      *)
(***************************************************************************)
\* The forEach of genChildrenByAnchor from `index` on (part_003 322-328).
RECURSIVE AnchorForEach(_, _, _)
AnchorForEach(generatedChildren, index, res) ==
    IF index \notin DOMAIN generatedChildren
    THEN res
    ELSE AnchorForEach(generatedChildren, index + 1,
                       Store(res,
                             ChildKey(Suffix(generatedChildren[index].name), index, res),
                             generatedChildren[index].node))

(***************************************************************************)
(* Resource tables (index.ts 38-41) and the builders that fill them.       *)
(***************************************************************************)
\* The texture name of an image layer (image.ts 42-46).
Texture(n) ==
    IF ColonPositions(n.name) # {} THEN Suffix(n.name) ELSE n.name

\* genImage with the table consulted before the node is built.
GenImageTextureFromTable(n, table) ==
    [out |-> [type |-> "Image",
              texture |-> IF n.imageHash \in DOMAIN table
                          THEN table[n.imageHash] ELSE Texture(n),
              imageHash |-> n.imageHash],
     table |-> IF n.imageHash \in DOMAIN table
               THEN table
               ELSE Store(table, n.imageHash, Texture(n))]

\* genImage (image.ts 35-70): the Image node carries the layer's own texture
\* name; the table is read only after the node is built, into a local that
\* is not used again.  imageHash is kept with the node for reference.
GenImage(n, table) ==
    [out |-> [type |-> "Image", texture |-> Texture(n), imageHash |-> n.imageHash],
     table |-> IF n.imageHash \in DOMAIN table
               THEN table
               ELSE Store(table, n.imageHash, Texture(n))]

\* String.prototype.toUpperCase on one character of the modelled alphabet.
UpperChar(c) ==
    CASE c = "a" -> "A"
      [] c = "b" -> "B"
      [] c = "d" -> "D"
      [] c = "e" -> "E"
      [] c = "p" -> "P"
      [] c = "u" -> "U"
      [] OTHER -> c

\* fname + fstyle + fsize (part_002 34-38).
FontKey(font) ==
    LET fname == ToLowerCase(font.family)
        lower == ToLowerCase(font.style)
        fstyle == <<UpperChar(lower[1])>> \o SubSeq(lower, 2, Len(lower))
    IN  fname \o fstyle \o IndexToString(font.size)

\* genLabel (part_002 28-68).
GenLabel(n, table) ==
    [out |-> [type |-> "Label", font |-> FontKey(n.font), fontSize |-> n.font.size],
     table |-> IF FontKey(n.font) \in DOMAIN table
               THEN table
               ELSE Store(table, FontKey(n.font), n.font.size)]

\* The synchronous pass of generate() over the children of the root frame:
\* every child's generateNode runs, in document order, whether or not an
\* earlier one has thrown (children.ts maps over all children before it
\* awaits any).  st = [images, fonts, out, failed].
RECURSIVE ConvertChildren(_, _, _)
ConvertChildren(children, i, st) ==
    IF i > Len(children)
    THEN st
    ELSE LET n == children[i]
             d == Dispatch(n)
         IN  IF d.error # "none" \/ BuilderStart(d.builder, n).error # "none"
             THEN ConvertChildren(children, i + 1, [st EXCEPT !.failed = TRUE])
             ELSE IF d.builder = "genImage"
             THEN LET g == GenImage(n, st.images)
                  IN  ConvertChildren(children, i + 1,
                          [st EXCEPT !.images = g.table, !.out = Append(@, g.out)])
             ELSE IF d.builder = "genLabel"
             THEN LET g == GenLabel(n, st.fonts)
                  IN  ConvertChildren(children, i + 1,
                          [st EXCEPT !.fonts = g.table, !.out = Append(@, g.out)])
             ELSE ConvertChildren(children, i + 1,
                      [st EXCEPT !.out = Append(@, [type |-> "Other"])])

\* The keys of the texture manifest (generateTextures, index.ts 171-178).
TextureManifest(table) == {table[h] : h \in DOMAIN table}

\* The Image of a rectangle whose first fill is an image (image.ts 48-60).
ImageCode(n, parentHeight) ==
    [type |-> "Image",
     data |-> [texture |-> Texture(n), anchor2 |-> <<0, 0>>, angle |-> n.rotation,
               position |-> BuilderPosition("genImage", parentHeight, n)]]

(***************************************************************************)
(* Promises.  One export is a synchronous descent through the tree (every  *)
(* generateNode call is made before the first await suspends anything)     *)
(* followed by a run of the microtask queue, first in first out.  A job    *)
(* [kind, path, outcome] resumes the function `kind` of the node at `path` *)
(* with the outcome of the promise it awaits; the function then settles    *)
(* its own promise with that outcome.                                      *)
(***************************************************************************)
Fulfilled == <<"fulfilled">>

Rejected(path) == <<"rejected", path>>

IsRejected(o) == o[1] = "rejected"

\* What generateNode(n) has done when it returns its promise:
\*   "throws"     generateNode or a synchronous builder threw: the promise
\*                is rejected already
\*   "value"      a synchronous builder returned a node: fulfilled already
\*   "rejected"   the asynchronous genButton threw at once: generateNode
\*                returns that rejected promise and is itself still pending
\*   "container"  genFrame or genButton awaits its children
SyncOutcome(n) ==
    LET d == Dispatch(n)
    IN  IF d.error # "none"
        THEN "throws"
        ELSE IF d.builder = "genButton"
        THEN IF BuilderStart(d.builder, n).error # "none" THEN "rejected" ELSE "container"
        ELSE IF d.builder = "genFrame"
        THEN "container"
        ELSE IF BuilderStart(d.builder, n).error # "none" THEN "throws" ELSE "value"

\* The function that awaits generateNode(child): layoutByAnchor in an
\* Anchored container (part_003 212), the arrow function of
\* genChildrenByFloat otherwise (part_003 161).
Awaiter(layoutMode) ==
    IF layoutMode = "NONE" THEN "layoutByAnchor" ELSE "arrow"

\* The jobs queued by the synchronous descent into node n at `path`, in
\* order; `awaiter` is the function awaiting generateNode(n).
RECURSIVE SyncJobs(_, _, _)
RECURSIVE SyncJobsOfChildren(_, _, _)
SyncJobsOfChildren(n, path, i) ==
    IF i > Len(n.children)
    THEN <<>>
    ELSE SyncJobs(n.children[i], Append(path, i), Awaiter(n.layoutMode))
             \o SyncJobsOfChildren(n, path, i + 1)

SyncJobs(n, path, awaiter) ==
    CASE SyncOutcome(n) = "throws" ->
             <<[kind |-> awaiter, path |-> path, outcome |-> Rejected(path)]>>
      [] SyncOutcome(n) = "value" ->
             <<[kind |-> awaiter, path |-> path, outcome |-> Fulfilled]>>
      [] SyncOutcome(n) = "rejected" ->
             <<[kind |-> "thenable", path |-> path, outcome |-> Rejected(path)]>>
      [] OTHER ->
             (IF n.children = <<>>
              THEN <<[kind |-> "genChildren", path |-> path, outcome |-> Fulfilled]>>
              ELSE SyncJobsOfChildren(n, path, 1))
                 \o <<[kind |-> "thenable", path |-> path, outcome |-> <<"pending">>]>>

\* The node of tree t at a path.
RECURSIVE NodeAt(_, _)
NodeAt(t, path) ==
    IF path = <<>> THEN t ELSE NodeAt(t.children[Head(path)], Tail(path))

ParentPath(path) == SubSeq(path, 1, Len(path) - 1)

\* The paths of the containers of t whose children are converted.
RECURSIVE ContainerPaths(_, _)
ContainerPaths(n, path) ==
    IF SyncOutcome(n) # "container"
    THEN {}
    ELSE {path} \cup UNION {ContainerPaths(n.children[i], Append(path, i)) :
                               i \in DOMAIN n.children}

\* The function resumed when the promise of function `kind` at `path`
\* settles, in a tree t.
\*   layoutByAnchor -> the arrow function of genChildrenByAnchor (319)
\*   arrow          -> Promise.all (316, 158)
\*   genChildren    -> genFrame (frame.ts 44, 60) / genButton (118, 134)
\*   builder        -> generateNode, resolved with the builder's promise
\*   generateNode   -> the awaiter in the parent, generate() for the root
\*   generate       -> the "generate" handler (part_004 29)
NextKind(t, kind, path) ==
    CASE kind = "layoutByAnchor" -> "arrow"
      [] kind = "arrow" -> "all"
      [] kind = "genChildren" -> "builder"
      [] kind = "builder" -> "generateNode"
      [] kind = "generateNode" ->
             IF path = <<>>
             THEN "generate"
             ELSE Awaiter(NodeAt(t, ParentPath(path)).layoutMode)
      [] OTHER -> "handler"

(***************************************************************************)
(* State.                                                                  *)
(***************************************************************************)
VARIABLES
    node,         \* SpecParse: the scene node handed to generateNode
    parsed,       \* SpecParse: the locals name and special after the parsing
    outcome,      \* SpecParse: "pending", or what generateNode did
    parentNode,   \* SpecKeys: the container whose children are assembled
    result,       \* SpecKeys: the record `result` of genChildrenBy*
    assembled,    \* SpecKeys: whether genChildrenBy* has returned
    box,          \* SpecFlip: the builder, the node's box, the parent's height
    position,     \* SpecFlip: data.position of the node built
    imageHashMap, \* SpecExport: index.ts 38, image hash -> texture name
    fontHashMap,  \* SpecExport: index.ts 41, font key -> size
    phase,        \* SpecExport: "idle", "running", "done" or "failed"
    failing,      \* SpecExport: whether the running export has a rejected child
    output,       \* SpecExport: the nodes converted by the export, in order
    textures,     \* SpecExport: the keys of the texture manifest emitted
    fonts,        \* SpecExport: the font manifest emitted, key -> size
    tree,         \* SpecAsync: the document of the export
    queue,        \* SpecAsync: the microtask queue
    all,          \* SpecAsync: per container, the state of its Promise.all
    exported,     \* SpecAsync: how the handler's await of generate() ended
    child,        \* SpecLayout: the source node and its parent
    cuglChild,    \* SpecLayout: the output node with its layout entry
    container,    \* SpecContainer: the source frame, with its children's names
    built,        \* SpecContainer: the node genFrame or genButton returns
    shape,        \* SpecShape: the source rectangle or ellipse
    shapeCode,    \* SpecShape: the node generateNode returns for it
    floatNode,    \* SpecFloat: the auto-layout container
    gathered,     \* SpecFloat: the slots of Promise.all and the settling order
    floatResult,  \* SpecFloat: the children map genChildrenByFloat returns
    scene,        \* SpecScene: the root frame generate() is called on
    laidOut,      \* SpecScene: what Promise.all has got from layoutByAnchor
    frameCode     \* SpecScene: the node genFrame returns

parseVars == <<node, parsed, outcome>>

keyVars == <<parentNode, result, assembled>>

flipVars == <<box, position>>

exportVars == <<imageHashMap, fontHashMap, phase, failing, output, textures, fonts>>

asyncVars == <<tree, queue, all, exported>>

vars == <<node, parsed, outcome, parentNode, result, assembled, box, position,
          imageHashMap, fontHashMap, phase, failing, output, textures, fonts,
          tree, queue, all, exported, child, cuglChild, container, built,
          shape, shapeCode, floatNode, gathered, floatResult,
          scene, laidOut, frameCode>>

floatVars == <<floatNode, gathered, floatResult>>

sceneVars == <<scene, laidOut, frameCode>>

shapeVars == <<shape, shapeCode>>

containerVars == <<container, built>>

layoutVars == <<child, cuglChild>>

NoNode == [name |-> NoString, type |-> "none", fills |-> Paints(<<>>), isRoot |-> FALSE,
           nchildren |-> 0]

NoParse == [error |-> "none", hasSpecial |-> FALSE, special |-> NoString,
            name |-> NoString]

Pending == [phase |-> "pending", builder |-> "none", error |-> "none", type |-> "none"]

IdleParse == node = NoNode /\ parsed = NoParse /\ outcome = Pending

NoParent == [names |-> <<>>, layoutMode |-> "NONE"]

IdleKeys == parentNode = NoParent /\ result = EmptyRecord /\ assembled = FALSE

Undefined == [defined |-> FALSE, value |-> 0]

NoBox == [builder |-> "none", parentHeight |-> Undefined, x |-> 0, y |-> 0,
          width |-> 0, height |-> 0]

NotBuilt == [built |-> FALSE, x |-> 0, y |-> 0]

IdleFlip == box = NoBox /\ position = NotBuilt

IdleExport ==
    /\ imageHashMap = EmptyRecord
    /\ fontHashMap = EmptyRecord
    /\ phase = "idle"
    /\ failing = FALSE
    /\ output = <<>>
    /\ textures = {}
    /\ fonts = EmptyRecord

NoTree == [name |-> NoString, type |-> "none", fills |-> Paints(<<>>), isRoot |-> TRUE,
           nchildren |-> 0, layoutMode |-> "NONE", children |-> <<>>]

NotStarted == <<"not started">>

IdleAsync ==
    /\ tree = NoTree
    /\ queue = <<>>
    /\ all = EmptyRecord
    /\ exported = NotStarted

NoChild == [builder |-> "none"]

NotLaid == [laid |-> FALSE]

IdleLayout == child = NoChild /\ cuglChild = NotLaid

NoContainer == [builder |-> "none"]

Unbuilt == [done |-> FALSE]

IdleContainer == container = NoContainer /\ built = Unbuilt

NoShape == [type |-> "none"]

NoCode == [type |-> "none"]

IdleShape == shape = NoShape /\ shapeCode = NoCode

NoFloat == [layoutMode |-> "NONE"]

NothingGathered == [values |-> EmptyRecord, order |-> <<>>]

NoResult == [done |-> FALSE]

IdleFloat ==
    floatNode = NoFloat /\ gathered = NothingGathered /\ floatResult = NoResult

NoScene == [type |-> "none"]

NoFrame == [done |-> FALSE]

IdleScene ==
    scene = NoScene /\ laidOut = NothingGathered /\ frameCode = NoFrame

(***************************************************************************)
(* SpecParse: generateNode on one node without children.                   *)
(***************************************************************************)
TagPrefixes ==
    { <<>>,
      <<"u", "p", ":">>,
      <<"D", "o", "w", "n", ":">>,
      <<"E", "d", "i", "t", ":">>,
      <<"B", "U", "t", "t", "o", "n", ":">>,
      <<"B", ":">> }

MaxFills == 2

FillLists ==
    {MixedFills} \cup {Paints(ps) : ps \in UNION {[1..k -> FillTypes] : k \in 0..MaxFills}}

InitParse ==
    /\ \E pre \in TagPrefixes, rest \in Str(MaxNameLen), t \in NodeTypes,
          f \in FillLists, r \in BOOLEAN :
          /\ t # "RECTANGLE" => f = SolidFill
          /\ node = [name |-> pre \o rest, type |-> t, fills |-> f, isRoot |-> r,
                     nchildren |-> 0]
    /\ parsed = NoParse
    /\ outcome = Pending
    /\ IdleKeys /\ IdleFlip /\ IdleExport /\ IdleAsync /\ IdleLayout /\ IdleContainer /\ IdleShape /\ IdleFloat /\ IdleScene

GenerateNode ==
    /\ node # NoNode
    /\ outcome.phase = "pending"
    /\ parsed' = ParseName(node.name)
    /\ outcome' = [phase |-> "done", builder |-> Dispatch(node).builder]
                       @@ GenerateNodeStart(node)
    /\ UNCHANGED <<node, keyVars, flipVars, exportVars, asyncVars, layoutVars, containerVars, shapeVars, floatVars, sceneVars>>

NextParse == GenerateNode

SpecParse == InitParse /\ [][NextParse]_vars

(***************************************************************************)
(* SpecKeys: genChildrenByAnchor / genChildrenByFloat on a container whose *)
(* children all convert.  The children are text layers.                    *)
(***************************************************************************)
MaxChildren == 3

ChildNames ==
    { <<"a">>,
      <<"a", "_", "1">>,
      <<"a", "_", "2">>,
      <<"b">>,
      <<"u", "p", ":", "a">> }

LayoutModes == {"NONE", "HORIZONTAL", "VERTICAL"}

TextNode(nm) == [name |-> nm, type |-> "TEXT", fills |-> SolidFill, isRoot |-> FALSE,
                 nchildren |-> 0]

InitKeys ==
    /\ \E n \in 0..MaxChildren, m \in LayoutModes :
          \E names \in [1..n -> ChildNames] :
              /\ \A i \in 1..n : GenerateNodeStart(TextNode(names[i])).error = "none"
              /\ parentNode = [names |-> names, layoutMode |-> m]
    /\ result = EmptyRecord
    /\ assembled = FALSE
    /\ IdleParse /\ IdleFlip /\ IdleExport /\ IdleAsync /\ IdleLayout /\ IdleContainer /\ IdleShape /\ IdleFloat /\ IdleScene

\* genChildrenByAnchor (layoutMode NONE) or genChildrenByFloat: after every
\* child has converted, the keys are assigned in document order.
GenChildren ==
    /\ ~assembled
    /\ result' = AssignKeys(parentNode.names, 1, EmptyRecord)
    /\ assembled' = TRUE
    /\ UNCHANGED <<parentNode, parseVars, flipVars, exportVars, asyncVars, layoutVars, containerVars, shapeVars, floatVars, sceneVars>>

NextKeys == GenChildren

SpecKeys == InitKeys /\ [][NextKeys]_vars

(***************************************************************************)
(* SpecFlip: the position each builder gives an unrotated node.            *)
(***************************************************************************)
MaxCoord == 2

Heights == {Undefined} \cup {[defined |-> TRUE, value |-> v] : v \in 0..MaxCoord}

InitFlip ==
    /\ \E b \in Builders, ph \in Heights, x \in 0..MaxCoord, y \in 0..MaxCoord,
          h \in 0..MaxCoord :
          box = [builder |-> b, parentHeight |-> ph, x |-> x, y |-> y,
                 width |-> MaxCoord, height |-> h]
    /\ position = NotBuilt
    /\ IdleParse /\ IdleKeys /\ IdleExport /\ IdleAsync /\ IdleLayout /\ IdleContainer /\ IdleShape /\ IdleFloat /\ IdleScene

Build ==
    /\ box # NoBox
    /\ ~position.built
    /\ LET p == BuilderPosition(box.builder, box.parentHeight, box)
       IN  position' = [built |-> TRUE, x |-> p[1], y |-> p[2]]
    /\ UNCHANGED <<box, parseVars, keyVars, exportVars, asyncVars, layoutVars, containerVars, shapeVars, floatVars, sceneVars>>

NextFlip == Build

SpecFlip == InitFlip /\ [][NextFlip]_vars

(***************************************************************************)
(* SpecExport: a sequence of "generate" events (code.ts = part_004 25-43)  *)
(* on documents that are a root frame with leaf children.                  *)
(***************************************************************************)
MaxDocLen == 3

Hashes == {"h1", "h2"}

NoFont == [family |-> <<>>, style |-> <<>>, size |-> 0]

ImageLayer(nm, h) ==
    [name |-> nm, type |-> "RECTANGLE", fills |-> Paints(<<"IMAGE">>), isRoot |-> FALSE,
     nchildren |-> 0, imageHash |-> h, font |-> NoFont]

TextLayer(nm, f) ==
    [name |-> nm, type |-> "TEXT", fills |-> SolidFill, isRoot |-> FALSE,
     nchildren |-> 0, imageHash |-> "none", font |-> f]

LayerFonts ==
    { [family |-> <<"a">>, style |-> <<"b">>, size |-> 12],
      [family |-> <<"a">>, style |-> <<"b", "1">>, size |-> 2] }

\* The layers a document is made of: images, labels, and a text layer whose
\* name is not an identifier.
Layers ==
    {ImageLayer(nm, h) : nm \in {<<"a">>, <<"b">>}, h \in Hashes}
        \cup {ImageLayer(<<"u", "p", ":", "a">>, "h1")}
        \cup {TextLayer(<<"t">>, f) : f \in LayerFonts}
        \cup {TextLayer(<<"1">>, [family |-> <<"a">>, style |-> <<"b">>, size |-> 12])}

Documents == UNION {[1..n -> Layers] : n \in 0..MaxDocLen}

InitExport == IdleExport /\ IdleParse /\ IdleKeys /\ IdleFlip /\ IdleAsync /\ IdleLayout /\ IdleContainer /\ IdleShape /\ IdleFloat /\ IdleScene

\* The "generate" event up to the first await that suspends the handler:
\* generate(event.node) has called generateNode on every layer.
StartGenerate ==
    /\ phase = "idle"
    /\ \E doc \in Documents :
          LET st == ConvertChildren(doc, 1,
                        [images |-> imageHashMap, fonts |-> fontHashMap,
                         out |-> <<>>, failed |-> FALSE])
          IN  /\ imageHashMap' = st.images
              /\ fontHashMap' = st.fonts
              /\ failing' = st.failed
              /\ output' = st.out
    /\ phase' = "running"
    /\ textures' = {}
    /\ fonts' = EmptyRecord
    /\ UNCHANGED <<parseVars, keyVars, flipVars, asyncVars, layoutVars, containerVars, shapeVars, floatVars, sceneVars>>

\* generate() fulfils: the handler goes on to generateTextures() and
\* generateFonts(), which read and clear the tables.
FinishGenerate ==
    /\ phase = "running"
    /\ ~failing
    /\ textures' = TextureManifest(imageHashMap)
    /\ fonts' = fontHashMap
    /\ imageHashMap' = EmptyRecord
    /\ fontHashMap' = EmptyRecord
    /\ phase' = "done"
    /\ UNCHANGED <<failing, output, parseVars, keyVars, flipVars, asyncVars, layoutVars, containerVars, shapeVars, floatVars, sceneVars>>

\* generate() rejects: the handler's await throws, and neither
\* generateTextures() nor generateFonts() is called.
FailGenerate ==
    /\ phase = "running"
    /\ failing
    /\ phase' = "failed"
    /\ output' = <<>>
    /\ UNCHANGED <<imageHashMap, fontHashMap, failing, textures, fonts,
                   parseVars, keyVars, flipVars, asyncVars, layoutVars, containerVars, shapeVars, floatVars, sceneVars>>

\* The handler has returned (or thrown); its results are the host's.
HandlerReturns ==
    /\ phase \in {"done", "failed"}
    /\ phase' = "idle"
    /\ failing' = FALSE
    /\ output' = <<>>
    /\ textures' = {}
    /\ fonts' = EmptyRecord
    /\ UNCHANGED <<imageHashMap, fontHashMap, parseVars, keyVars, flipVars,
                   asyncVars, layoutVars, containerVars, shapeVars, floatVars, sceneVars>>

NextExport == StartGenerate \/ FinishGenerate \/ FailGenerate \/ HandlerReturns

SpecExport == InitExport /\ [][NextExport]_vars

(***************************************************************************)
(* SpecAsync: one export of a tree two levels deep, microtask by           *)
(* microtask, up to the settling of the handler's `await generate(...)`.   *)
(***************************************************************************)
MaxKids == 2

MaxGrandKids == 1

SceneNode(nm, t, root, mode, kids) ==
    [name |-> nm, type |-> t, fills |-> SolidFill, isRoot |-> root,
     nchildren |-> Len(kids), layoutMode |-> mode, children |-> kids]

\* A text layer with a valid name and one whose name is not an identifier.
LeafNodes ==
    { SceneNode(<<"a">>, "TEXT", FALSE, "NONE", <<>>),
      SceneNode(<<"1">>, "TEXT", FALSE, "NONE", <<>>) }

SeqsUpTo(S, n) == UNION {[1..k -> S] : k \in 0..n}

\* Frames and button frames (a button frame without children is rejected
\* by genButton) holding leaves.
InnerNodes ==
    { SceneNode(nm, "FRAME", FALSE, mode, kids) :
          nm \in {<<"b">>, <<"b", "u", "t", "t", "o", "n", ":", "b">>},
          mode \in {"NONE", "HORIZONTAL"},
          kids \in SeqsUpTo(LeafNodes, MaxGrandKids) }

Trees ==
    { SceneNode(<<"b">>, "FRAME", TRUE, mode, kids) :
          mode \in {"NONE", "HORIZONTAL"},
          kids \in SeqsUpTo(LeafNodes \cup InnerNodes, MaxKids) }

InitAsync ==
    /\ tree \in Trees
    /\ queue = <<>>
    /\ all = EmptyRecord
    /\ exported = NotStarted
    /\ IdleParse /\ IdleKeys /\ IdleFlip /\ IdleExport /\ IdleLayout /\ IdleContainer /\ IdleShape /\ IdleFloat /\ IdleScene

\* The "generate" event: generate(event.node) descends through the whole
\* tree and the handler suspends at its await.
StartExport ==
    /\ tree # NoTree
    /\ exported = NotStarted
    /\ queue' = SyncJobs(tree, <<>>, "generate")
    /\ all' = [c \in ContainerPaths(tree, <<>>) |->
                  [settled |-> NodeAt(tree, c).children = <<>>,
                   remaining |-> Len(NodeAt(tree, c).children)]]
    /\ exported' = <<"pending">>
    /\ UNCHANGED <<tree, parseVars, keyVars, flipVars, exportVars, layoutVars, containerVars, shapeVars, floatVars, sceneVars>>

\* An async function resumes after its await and settles as the awaited
\* promise did; the function awaiting it is queued.
RunAwaited ==
    /\ queue # <<>>
    /\ Head(queue).kind \in {"layoutByAnchor", "arrow", "genChildren", "builder",
                             "generateNode", "generate"}
    /\ LET job == Head(queue)
       IN  queue' = Append(Tail(queue),
                           [kind |-> NextKind(tree, job.kind, job.path),
                            path |-> job.path, outcome |-> job.outcome])
    /\ UNCHANGED <<tree, all, exported, parseVars, keyVars, flipVars, exportVars, layoutVars, containerVars, shapeVars, floatVars, sceneVars>>

\* Promise.all is told of one child: the first rejection rejects it, the
\* last fulfilment fulfils it, and genChildrenBy* is queued to resume.
RunAllReaction ==
    /\ queue # <<>>
    /\ Head(queue).kind = "all"
    /\ LET job == Head(queue)
           parent == ParentPath(job.path)
           resume == [kind |-> "genChildren", path |-> parent, outcome |-> job.outcome]
       IN  IF all[parent].settled
           THEN queue' = Tail(queue) /\ UNCHANGED all
           ELSE IF IsRejected(job.outcome)
           THEN /\ all' = [all EXCEPT ![parent].settled = TRUE]
                /\ queue' = Append(Tail(queue), resume)
           ELSE IF all[parent].remaining = 1
           THEN /\ all' = [all EXCEPT ![parent] = [settled |-> TRUE, remaining |-> 0]]
                /\ queue' = Append(Tail(queue), resume)
           ELSE /\ all' = [all EXCEPT ![parent].remaining = @ - 1]
                /\ queue' = Tail(queue)
    /\ UNCHANGED <<tree, exported, parseVars, keyVars, flipVars, exportVars, layoutVars, containerVars, shapeVars, floatVars, sceneVars>>

\* generateNode returned its builder's promise: the job calls then() on
\* it, which queues the reaction at once if the builder has rejected
\* already and only registers it otherwise.
RunThenable ==
    /\ queue # <<>>
    /\ Head(queue).kind = "thenable"
    /\ LET job == Head(queue)
       IN  IF IsRejected(job.outcome)
           THEN queue' = Append(Tail(queue),
                                [kind |-> "generateNode", path |-> job.path,
                                 outcome |-> job.outcome])
           ELSE queue' = Tail(queue)
    /\ UNCHANGED <<tree, all, exported, parseVars, keyVars, flipVars, exportVars, layoutVars, containerVars, shapeVars, floatVars, sceneVars>>

\* The handler resumes after `await generate(event.node)`.
RunHandler ==
    /\ queue # <<>>
    /\ Head(queue).kind = "handler"
    /\ exported' = Head(queue).outcome
    /\ queue' = Tail(queue)
    /\ UNCHANGED <<tree, all, parseVars, keyVars, flipVars, exportVars, layoutVars, containerVars, shapeVars, floatVars, sceneVars>>

NextAsync == StartExport \/ RunAwaited \/ RunAllReaction \/ RunThenable \/ RunHandler

SpecAsync == InitAsync /\ [][NextAsync]_vars

(***************************************************************************)
(* SpecLayout: one node converted by its builder and laid out by its       *)
(* container: the root of the export, a child of an Anchored container or  *)
(* the child at some index of a Float container.                           *)
(***************************************************************************)
\* node.rotation with the 2x2 part of node.relativeTransform.
Transforms ==
    { [rotation |-> 0, m |-> <<<<1, 0>>, <<0, 1>>>>],
      [rotation |-> 90, m |-> <<<<0, 1>>, <<0 - 1, 0>>>>],
      [rotation |-> 180, m |-> <<<<0 - 1, 0>>, <<0, 0 - 1>>>>] }

ParentSizes == {MaxCoord, MaxCoord + 2}

LayoutParents ==
    { [isPage |-> pg, layoutMode |-> lm, width |-> W, height |-> H,
       paddingLeft |-> 1, paddingBottom |-> 2, paddingRight |-> 3,
       paddingTop |-> 4, itemSpacing |-> 5] :
          pg \in BOOLEAN, lm \in {"NONE", "HORIZONTAL", "VERTICAL"},
          W \in ParentSizes, H \in ParentSizes }

InitLayout ==
    /\ \E b \in {"genFrame", "genLabel"}, t \in Transforms, par \in LayoutParents,
          x \in 0..MaxCoord, y \in 0..MaxCoord, w \in 1..MaxCoord, h \in 1..MaxCoord,
          ch \in ConstraintTypes, cv \in ConstraintTypes,
          n \in 1..MaxChildren, i \in 0..(MaxChildren - 1) :
          /\ i < n
          \* the parent of the root is a page; only Anchored reads constraints
          \* and only Float reads the index
          /\ par.isPage => par.layoutMode = "NONE" /\ par.width = MaxCoord
                               /\ par.height = MaxCoord
          /\ (par.isPage \/ par.layoutMode # "NONE") => ch = "MIN" /\ cv = "MIN"
          /\ (par.isPage \/ par.layoutMode = "NONE") => n = 1
          /\ child = [builder |-> b, rotation |-> t.rotation, m |-> t.m,
                      x |-> x, y |-> y, width |-> w, height |-> h,
                      horizontal |-> ch, vertical |-> cv,
                      index |-> i, count |-> n, parent |-> par]
    /\ cuglChild = NotLaid
    /\ IdleParse /\ IdleKeys /\ IdleFlip /\ IdleExport /\ IdleAsync /\ IdleContainer /\ IdleShape /\ IdleFloat /\ IdleScene

\* generate(root): the node its builder returns; a page has no height.
GenerateRoot ==
    /\ child # NoChild /\ ~cuglChild.laid
    /\ child.parent.isPage
    /\ cuglChild' = [laid |-> TRUE,
                     data |-> BuilderData(child.builder, Undefined, child),
                     layout |-> [type |-> "none"]]
    /\ UNCHANGED <<child, parseVars, keyVars, flipVars, exportVars, asyncVars, containerVars, shapeVars, floatVars, sceneVars>>

AnchorChild ==
    /\ child # NoChild /\ ~cuglChild.laid
    /\ ~child.parent.isPage /\ child.parent.layoutMode = "NONE"
    /\ cuglChild' = [laid |-> TRUE] @@ LayoutByAnchor(child)
    /\ UNCHANGED <<child, parseVars, keyVars, flipVars, exportVars, asyncVars, containerVars, shapeVars, floatVars, sceneVars>>

FloatChild ==
    /\ child # NoChild /\ ~cuglChild.laid
    /\ ~child.parent.isPage /\ child.parent.layoutMode # "NONE"
    /\ cuglChild' = [laid |-> TRUE] @@ LayoutByFloat(child)
    /\ UNCHANGED <<child, parseVars, keyVars, flipVars, exportVars, asyncVars, containerVars, shapeVars, floatVars, sceneVars>>

NextLayout == GenerateRoot \/ AnchorChild \/ FloatChild

SpecLayout == InitLayout /\ [][NextLayout]_vars

(***************************************************************************)
(* SpecContainer: genFrame or genButton on one container whose children    *)
(* are text layers.                                                        *)
(***************************************************************************)
ContainerChildNames ==
    { <<"a">>,
      <<"b">>,
      <<"u", "p", ":", "a">>,
      <<"d", "o", "w", "n", ":", "a">>,
      <<"D", "o", "w", "n", ":", "b">>,
      <<"1">> }

InitContainer ==
    /\ \E b \in {"genFrame", "genButton"}, n \in 0..MaxChildren, lm \in LayoutModes,
          pa \in PrimaryAlignments, ca \in CounterAlignments :
          \E names \in [1..n -> ContainerChildNames] :
              /\ lm = "NONE" => pa = "MIN" /\ ca = "MIN"
              /\ container = [builder |-> b, names |-> names, layoutMode |-> lm,
                              primaryAxisAlignItems |-> pa,
                              counterAxisAlignItems |-> ca]
    /\ built = Unbuilt
    /\ IdleParse /\ IdleKeys /\ IdleFlip /\ IdleExport /\ IdleAsync /\ IdleLayout /\ IdleShape /\ IdleFloat /\ IdleScene

\* The outcome of awaiting the children, then of the format.
ChildrenThenFormat(n) ==
    IF \E i \in DOMAIN n.names :
           GenerateNodeStart(TextNode(n.names[i])).error # "none"
    THEN [error |-> "child"]
    ELSE ContainerFormat(n)

\* genFrame (frame.ts 39-81).
GenFrame ==
    /\ container # NoContainer /\ ~built.done
    /\ container.builder = "genFrame"
    /\ LET f == ChildrenThenFormat(container)
       IN  built' = IF f.error # "none"
                    THEN [done |-> TRUE] @@ f
                    ELSE [done |-> TRUE, error |-> "none", type |-> "Node",
                          format |-> f.format,
                          children |-> AssignKeys(container.names, 1, EmptyRecord)]
    /\ UNCHANGED <<container, parseVars, keyVars, flipVars, exportVars, asyncVars,
                   layoutVars, shapeVars, floatVars, sceneVars>>

\* genButton (textField.ts 79-160).
GenButton ==
    /\ container # NoContainer /\ ~built.done
    /\ container.builder = "genButton"
    /\ LET f == ChildrenThenFormat(container)
       IN  built' = IF container.names = <<>>
                    THEN [done |-> TRUE, error |-> "button"]
                    ELSE IF f.error # "none"
                    THEN [done |-> TRUE] @@ f
                    ELSE [done |-> TRUE, error |-> "none", type |-> "Button",
                          format |-> f.format,
                          children |-> AssignKeys(container.names, 1, EmptyRecord)]
                             @@ ButtonSlots(container.names)
    /\ UNCHANGED <<container, parseVars, keyVars, flipVars, exportVars, asyncVars,
                   layoutVars, shapeVars, floatVars, sceneVars>>

NextContainer == GenFrame \/ GenButton

SpecContainer == InitContainer /\ [][NextContainer]_vars

(***************************************************************************)
(* SpecShape: generateNode on one rectangle or ellipse with a valid name.  *)
(***************************************************************************)
MaxStrokes == 2

StrokeWeights == {Epsilon, Epsilon + Epsilon \div 2, 2 * Epsilon, 4 * Epsilon}

\* The four corner radii of a rectangle: none, or four different ones.
CornerRadii ==
    { [topLeftRadius |-> k, topRightRadius |-> 2 * k, bottomRightRadius |-> 3 * k,
       bottomLeftRadius |-> 4 * k] : k \in {0, Epsilon, 5 * Epsilon} }

InitShape ==
    /\ \E t \in {"RECTANGLE", "ELLIPSE"}, f \in {SolidFill, Paints(<<"IMAGE">>)},
          k \in 0..MaxStrokes, sa \in {"INSIDE", "CENTER", "OUTSIDE"},
          sw \in StrokeWeights, rot \in 0..MaxCoord, x \in 0..1, y \in 0..MaxCoord,
          h \in 1..MaxCoord, ph \in Heights, r \in CornerRadii :
          /\ t = "ELLIPSE" => r.topLeftRadius = 0
          /\ k = 0 => sa = "INSIDE" /\ sw = Epsilon
          /\ shape = [name |-> <<"a">>, type |-> t, fills |-> f, isRoot |-> FALSE,
                      nchildren |-> 0, strokes |-> k, strokeAlign |-> sa,
                      strokeWeight |-> sw, rotation |-> rot, x |-> x, y |-> y,
                      width |-> 20 * Epsilon, height |-> 20 * Epsilon + h,
                      parentHeight |-> ph] @@ r
    /\ shapeCode = NoCode
    /\ IdleParse /\ IdleKeys /\ IdleFlip /\ IdleExport /\ IdleAsync /\ IdleLayout
    /\ IdleContainer /\ IdleFloat /\ IdleScene

\* generateNode on the shape (index.ts 66-132): the builder's node.
GenerateShape ==
    /\ shape # NoShape /\ shapeCode = NoCode
    /\ LET b == Dispatch(shape).builder
       IN  shapeCode' =
               CASE b = "genImage" -> ImageCode(shape, shape.parentHeight)
                 [] b = "genRectangle" -> GenRectangle(shape, shape.parentHeight)
                 [] OTHER -> GenEllipse(shape, shape.parentHeight)
    /\ UNCHANGED <<shape, parseVars, keyVars, flipVars, exportVars, asyncVars,
                   layoutVars, containerVars, floatVars, sceneVars>>

NextShape == GenerateShape

SpecShape == InitShape /\ [][NextShape]_vars

(***************************************************************************)
(* SpecFloat: genChildrenByFloat on a container whose children all         *)
(* convert, their conversions settling in any order.                       *)
(***************************************************************************)
FloatChildNames == {<<"a">>, <<"b">>}

\* Each padding is absent or has a value of its own.
FloatNodes ==
    { [layoutMode |-> lm, names |-> names,
       paddingLeft |-> 1 * pl, paddingBottom |-> 2 * pb, paddingRight |-> 3 * pr,
       paddingTop |-> 4 * pt, itemSpacing |-> 5 * sp] :
          lm \in {"HORIZONTAL", "VERTICAL"},
          names \in UNION {[1..n -> FloatChildNames] : n \in 0..MaxChildren},
          pl \in 0..1, pb \in 0..1, pr \in 0..1, pt \in 0..1, sp \in 0..1 }

InitFloat ==
    /\ floatNode \in FloatNodes
    /\ gathered = NothingGathered
    /\ floatResult = NoResult
    /\ IdleParse /\ IdleKeys /\ IdleFlip /\ IdleExport /\ IdleAsync /\ IdleLayout
    /\ IdleContainer /\ IdleShape /\ IdleScene

\* The conversion of the child at index i (from 0) settles and its arrow
\* function hands {name, node} to Promise.all.
SettleChild ==
    /\ floatNode # NoFloat /\ ~floatResult.done
    /\ \E i \in 0..(Len(floatNode.names) - 1) :
          /\ \A k \in DOMAIN gathered.order : gathered.order[k] # i
          /\ gathered' =
                 [values |-> ResolveElement(gathered.values, i, Len(gathered.order),
                                            [name |-> floatNode.names[i + 1], src |-> i]),
                  order |-> Append(gathered.order, i)]
    /\ UNCHANGED <<floatNode, floatResult, parseVars, keyVars, flipVars, exportVars,
                   asyncVars, layoutVars, containerVars, shapeVars,
                   sceneVars>>

\* Promise.all has fulfilled: genChildrenByFloat resumes and assembles.
AssembleFloat ==
    /\ floatNode # NoFloat /\ ~floatResult.done
    /\ Len(gathered.order) = Len(floatNode.names)
    /\ floatResult' = [done |-> TRUE,
                       children |-> FloatForEach(floatNode, gathered.values, 0,
                                                 EmptyRecord)]
    /\ UNCHANGED <<floatNode, gathered, parseVars, keyVars, flipVars, exportVars,
                   asyncVars, layoutVars, containerVars, shapeVars,
                   sceneVars>>

NextFloat == SettleChild \/ AssembleFloat

SpecFloat == InitFloat /\ [][NextFloat]_vars

(***************************************************************************)
(* SpecScene: genFrame on a root frame without auto-layout whose children  *)
(* are a text layer and a rectangle, with any constraints; the children's  *)
(* conversions settle in any order.  One pixel is 200 units.               *)
(***************************************************************************)
\* The text layer `title` at (10, 10), 100 x 20.
SceneText(ch, cv) ==
    [name |-> <<"t", "i", "t", "l", "e">>, type |-> "TEXT", fills |-> SolidFill,
     isRoot |-> FALSE, nchildren |-> 0,
     x |-> 200 * 10, y |-> 200 * 10, width |-> 200 * 100, height |-> 200 * 20,
     rotation |-> 0, m |-> <<<<1, 0>>, <<0, 1>>>>,
     horizontal |-> ch, vertical |-> cv,
     font |-> [family |-> <<"a">>, style |-> <<"b">>, size |-> 12]]

\* The rectangle `bg` at (0, 0), 200 x 200, solid, without stroke or radius.
SceneRectangle(ch, cv) ==
    [name |-> <<"b", "g">>, type |-> "RECTANGLE", fills |-> SolidFill,
     isRoot |-> FALSE, nchildren |-> 0,
     x |-> 0, y |-> 0, width |-> 200 * 200, height |-> 200 * 200,
     rotation |-> 0, m |-> <<<<1, 0>>, <<0, 1>>>>,
     horizontal |-> ch, vertical |-> cv,
     strokes |-> 0, strokeAlign |-> "INSIDE", strokeWeight |-> 200,
     topLeftRadius |-> 0, topRightRadius |-> 0,
     bottomRightRadius |-> 0, bottomLeftRadius |-> 0]

\* Root frames of height 200 on a page.
Scenes ==
    { [name |-> <<"a">>, type |-> "FRAME", isRoot |-> TRUE, layoutMode |-> "NONE",
       x |-> x, y |-> y, width |-> 200 * 200 + w, height |-> 200 * 200,
       rotation |-> 0,
       children |-> <<SceneText(th, tv), SceneRectangle(rh, rv)>>] :
          x \in 0..1, y \in 0..1, w \in 0..1,
          th \in ConstraintTypes, tv \in ConstraintTypes,
          rh \in ConstraintTypes, rv \in ConstraintTypes }

\* layoutByAnchor(child, false) (part_003 206-293): the node of the child's
\* builder with the anchor and the layout entry set.
LayoutByAnchorNode(c, parent) ==
    LET b == Dispatch(c).builder
        l == LayoutByAnchor(c @@ [builder |-> b, parent |-> parent])
        parentHeight == [defined |-> TRUE, value |-> parent.height]
    IN  IF b = "genRectangle"
        THEN LET code == GenRectangle(c, parentHeight)
             IN  [type |-> code.type, polygon |-> code.data.polygon.points,
                  data |-> l.data, layout |-> l.layout]
        ELSE [type |-> GenLabel(c, EmptyRecord).out.type,
              data |-> l.data, layout |-> l.layout]

InitScene ==
    /\ scene \in Scenes
    /\ laidOut = NothingGathered
    /\ frameCode = NoFrame
    /\ IdleParse /\ IdleKeys /\ IdleFlip /\ IdleExport /\ IdleAsync /\ IdleLayout
    /\ IdleContainer /\ IdleShape /\ IdleFloat

\* layoutByAnchor of the child at index i (from 0) settles and its arrow
\* function hands {name, node} to Promise.all (part_003 316-321).
SettleLayout ==
    /\ scene # NoScene /\ ~frameCode.done
    /\ \E i \in 0..(Len(scene.children) - 1) :
          /\ \A k \in DOMAIN laidOut.order : laidOut.order[k] # i
          /\ laidOut' =
                 [values |-> ResolveElement(laidOut.values, i, Len(laidOut.order),
                                 [name |-> scene.children[i + 1].name,
                                  node |-> LayoutByAnchorNode(scene.children[i + 1],
                                                              scene)]),
                  order |-> Append(laidOut.order, i)]
    /\ UNCHANGED <<scene, frameCode, parseVars, keyVars, flipVars, exportVars,
                   asyncVars, layoutVars, containerVars, shapeVars, floatVars>>

\* Promise.all has fulfilled: genChildrenByAnchor assembles the children
\* map and genFrame builds the node of the root (frame.ts 58-80).
AssembleFrame ==
    /\ scene # NoScene /\ ~frameCode.done
    /\ Len(laidOut.order) = Len(scene.children)
    /\ frameCode' =
           [done |-> TRUE,
            type |-> "Node",
            format |-> ContainerFormat(scene).format,
            data |-> [anchor2 |-> <<0, 0>>,
                      size |-> <<RoundToFixed(scene.width), RoundToFixed(scene.height)>>,
                      angle |-> scene.rotation,
                      position |-> BuilderPosition("genFrame", Undefined, scene)],
            children |-> AnchorForEach(laidOut.values, 0, EmptyRecord)]
    /\ UNCHANGED <<scene, laidOut, parseVars, keyVars, flipVars, exportVars,
                   asyncVars, layoutVars, containerVars, shapeVars, floatVars>>

NextScene == SettleLayout \/ AssembleFrame

SpecScene == InitScene /\ [][NextScene]_vars

(***************************************************************************)
(* Claims.                                                                 *)
(***************************************************************************)
CountColons(s) == Cardinality(ColonPositions(s))

IdentifierStart == {"a", "b", "d", "e", "i", "n", "o", "p", "t", "u", "w",
                    "B", "D", "E", "P", "U", "_"}

IdentifierPart == IdentifierStart \cup {"0", "1", "2"}

\* The pattern [A-Za-z_][A-Za-z0-9_]* of the specification.
MatchesIdentifierPattern(s) ==
    /\ s # <<>>
    /\ Head(s) \in IdentifierStart
    /\ \A i \in DOMAIN Tail(s) : Tail(s)[i] \in IdentifierPart

\* C7: a display name without colon parses (no tag, base = the name) exactly
\* when it matches [A-Za-z_][A-Za-z0-9_]*; otherwise generateNode fails with
\* the identifier error and builds no node.
C7_ZeroColonsParseIffIdentifier ==
    (outcome.phase = "done" /\ CountColons(node.name) = 0) =>
        IF MatchesIdentifierPattern(node.name)
        THEN /\ parsed.error = "none"
             /\ ~parsed.hasSpecial
             /\ parsed.name = node.name
             /\ outcome.error # "identifier"
        ELSE /\ parsed.error = "identifier"
             /\ outcome.error = "identifier"
             /\ outcome.type = "none"

C7_Witness ==
    /\ outcome.phase = "done"
    /\ node.name = <<"a", "1">>
    /\ parsed.error = "none"
    /\ outcome.type = "Label"

CasePairs == {<<"B", "b">>, <<"D", "d">>, <<"E", "e">>, <<"P", "p">>, <<"U", "u">>}

\* C8: with exactly one colon the tag is the text before the colon in lower
\* case and the base the text after it; with two or more colons generateNode
\* fails with the format error.
C8_OneColonTagAndBase ==
    outcome.phase = "done" =>
        /\ CountColons(node.name) = 1 =>
               LET k == CHOOSE i \in ColonPositions(node.name) : TRUE
               IN  /\ parsed.error = "none"
                   /\ parsed.hasSpecial
                   /\ Len(parsed.special) = k - 1
                   /\ \A i \in 1..(k - 1) :
                          /\ parsed.special[i] \notin UpperLetters
                          /\ \/ parsed.special[i] = node.name[i]
                             \/ <<node.name[i], parsed.special[i]>> \in CasePairs
                   /\ parsed.name = SubSeq(node.name, k + 1, Len(node.name))
        /\ CountColons(node.name) >= 2 =>
               /\ parsed.error = "colons"
               /\ outcome.error = "colons"
               /\ outcome.type = "none"

C8_Witness ==
    /\ outcome.phase = "done"
    /\ node.name = <<"D", "o", "w", "n", ":", "a", "1">>
    /\ parsed.special = DOWN
    /\ parsed.name = <<"a", "1">>

\* C9: every non-root node that generateNode converts has a base (the whole
\* name when untagged, the text after the colon when tagged) that is a
\* non-empty identifier.
C9_ConvertedNodeHasIdentifierBase ==
    (outcome.phase = "done" /\ ~node.isRoot /\ outcome.error = "none") =>
        MatchesIdentifierPattern(Suffix(node.name))

\* C10: converting a root node of a supported type never fails because of
\* its display name.
C10_RootNameNotRequired ==
    (outcome.phase = "done" /\ node.isRoot
        /\ node.type \in {"TEXT", "FRAME", "RECTANGLE", "ELLIPSE"}) =>
        outcome.error \notin {"identifier", "colons"}

\* C2: the children map of a container whose children all convert has as
\* many entries as the container has children.
C2_OneKeyPerChild ==
    assembled => Cardinality(DOMAIN result) = Len(parentNode.names)

\* C6: an unrotated node whose parent has a defined height H (H = 0
\* included) is positioned at (x, H - h - y) by every builder, and at
\* (x, -y) when the parent has no height.
C6_FlippedPosition ==
    position.built =>
        /\ position.x = box.x
        /\ position.y = IF box.parentHeight.defined
                        THEN box.parentHeight.value - box.height - box.y
                        ELSE 0 - box.y

ImagesOf(out) == {i \in DOMAIN out : out[i].type = "Image"}

\* C1: within one export, image layers with the same image hash give Image
\* nodes with the same texture name.
C1_SameHashSameTexture ==
    phase = "done" =>
        \A i, j \in ImagesOf(output) :
            output[i].imageHash = output[j].imageHash =>
                output[i].texture = output[j].texture

\* C4: both resource tables are empty whenever a "generate" event can arrive.
C4_TablesEmptyAtStart ==
    phase = "idle" => imageHashMap = EmptyRecord /\ fontHashMap = EmptyRecord

\* C5: the texture manifest of a successful export has one key per distinct
\* image hash among the Image nodes of that export, and the image table is
\* empty afterwards.
C5_OneTexturePerHash ==
    phase = "done" =>
        /\ Cardinality(textures)
               = Cardinality({output[i].imageHash : i \in ImagesOf(output)})
        /\ imageHashMap = EmptyRecord

\* The invalid nodes of a tree in depth-first document order: the nodes
\* whose conversion raises an error of its own.
RECURSIVE InvalidPaths(_, _)
RECURSIVE InvalidPathsOfChildren(_, _, _)
InvalidPathsOfChildren(n, path, i) ==
    IF i > Len(n.children)
    THEN <<>>
    ELSE InvalidPaths(n.children[i], Append(path, i))
             \o InvalidPathsOfChildren(n, path, i + 1)

InvalidPaths(n, path) ==
    IF GenerateNodeStart(n).error # "none"
    THEN <<path>>
    ELSE InvalidPathsOfChildren(n, path, 1)

\* C3: an export of a tree with invalid nodes fails with the error of the
\* first invalid node in depth-first document order.
C3_FirstErrorInDocumentOrder ==
    (exported \notin {NotStarted, <<"pending">>} /\ InvalidPaths(tree, <<>>) # <<>>) =>
        exported = Rejected(Head(InvalidPaths(tree, <<>>)))

\* generateNode has parsed the name and the node is untagged or tagged
\* up or down: the switch on node.type decides.
StructuralDispatch ==
    /\ outcome.phase = "done"
    /\ parsed.error = "none"
    /\ parsed.hasSpecial => parsed.special \in {UP, DOWN}

\* C11: an untagged, up or down node is dispatched on its structural type:
\* Text to a Label, Frame or Group to a Node of the frame builder, Ellipse
\* to the ellipse builder, and every other type but Rectangle fails with
\* the unsupported-type error.
C11_DispatchByStructuralType ==
    (StructuralDispatch /\ node.type # "RECTANGLE") =>
        CASE node.type = "TEXT" ->
                 outcome.error = "none" /\ outcome.type = "Label"
          [] node.type \in {"FRAME", "GROUP"} ->
                 /\ outcome.error = "none"
                 /\ outcome.builder = "genFrame"
                 /\ outcome.type = "Node"
          [] node.type = "ELLIPSE" ->
                 outcome.error = "none" /\ outcome.builder = "genEllipse"
          [] OTHER -> outcome.error = "unsupported"

\* C12: a Rectangle goes to the Image builder exactly when its fills are
\* one single image paint, and to the Solid-rectangle builder otherwise.
C12_ImageIffSoleImageFill ==
    (StructuralDispatch /\ node.type = "RECTANGLE") =>
        /\ outcome.error = "none"
        /\ outcome.builder \in {"genImage", "genRectangle"}
        /\ outcome.builder = "genImage" <=> node.fills = Paints(<<"IMAGE">>)

\* The text of a display name before its first colon.
RawTag(nm) ==
    SubSeq(nm, 1, (CHOOSE i \in ColonPositions(nm) :
                       \A j \in ColonPositions(nm) : i <= j) - 1)

EqualIgnoringCase(s, t) ==
    /\ Len(s) = Len(t)
    /\ \A i \in DOMAIN s : s[i] = t[i] \/ <<s[i], t[i]>> \in CasePairs

HasTag(nm, tag) == CountColons(nm) = 1 /\ EqualIgnoringCase(RawTag(nm), tag)

\* C13: a node tagged edit, in any letter case, becomes a TextField when it
\* is a Text node and makes generateNode fail when it is of any other type;
\* it never becomes a node of another variant.
C13_EditTagNeedsText ==
    (outcome.phase = "done" /\ HasTag(node.name, EDIT)) =>
        IF node.type = "TEXT"
        THEN outcome.error = "none" /\ outcome.type = "TextField"
        ELSE outcome.error = "edit" /\ outcome.type = "none"

C13_Witness ==
    /\ outcome.phase = "done"
    /\ node.name = <<"E", "d", "i", "t", ":", "a">>
    /\ node.type = "TEXT"
    /\ outcome.type = "TextField"

\* C14: a tagged node whose tag, in lower case, is none of edit, button, up,
\* down makes generateNode fail with the keyword error whatever the type of
\* the node, and no node is built.
C14_UnknownTagFails ==
    (outcome.phase = "done" /\ CountColons(node.name) = 1
        /\ \A tag \in {EDIT, BUTTON, UP, DOWN} : ~HasTag(node.name, tag)) =>
        /\ outcome.error = "keyword"
        /\ outcome.builder = "none"
        /\ outcome.type = "none"

C14_Witness ==
    /\ outcome.phase = "done"
    /\ node.name = <<"B", ":", "a">>
    /\ node.type = "FRAME"
    /\ outcome.error = "keyword"

\* Twice the centre of a node's box under its transform: the image of the
\* middle of the box, in the source's coordinates and flipped in a parent
\* of height H.
TrueCenter2(c) ==
    <<2 * c.x + c.m[1][1] * c.width + c.m[1][2] * c.height,
      2 * c.y + c.m[2][1] * c.width + c.m[2][2] * c.height>>

FlippedCenter2(c, H) == <<TrueCenter2(c)[1], 2 * H - TrueCenter2(c)[2]>>

\* C15: an output node whose source is rotated has anchor (0.5, 0.5) and
\* its position is the centre of the source node (in either orientation of
\* the y axis), as root, in an Anchored and in a Float container.
C15_RotatedNodeCentered ==
    (cuglChild.laid /\ child.rotation # 0) =>
        /\ cuglChild.data.anchor2 = <<1, 1>>
        /\ cuglChild.data.position2 \in
               {TrueCenter2(child), FlippedCenter2(child, child.parent.height),
                FlippedCenter2(child, 0)}

\* Twice the anchor fraction the constraint stands for when both axes are
\* treated alike.
AlikeFraction2(value) ==
    CASE value = "MIN" -> 0
      [] value = "CENTER" -> 1
      [] value = "MAX" -> 2
      [] value = "STRETCH" -> 1
      [] OTHER -> 0

XAnchorName(value) ==
    CASE value = "MIN" -> "left"
      [] value = "CENTER" -> "center"
      [] value = "MAX" -> "right"
      [] value = "STRETCH" -> "fill"
      [] OTHER -> "left"

YAnchorName(value) ==
    CASE value = "MIN" -> "top"
      [] value = "CENTER" -> "middle"
      [] value = "MAX" -> "bottom"
      [] value = "STRETCH" -> "fill"
      [] OTHER -> "bottom"

AnchoredUnrotated ==
    cuglChild.laid /\ cuglChild.layout.type = "anchor" /\ child.rotation = 0

\* C16 as stated: on both axes MIN, CENTER, MAX, STRETCH give the anchor
\* fractions 0, 0.5, 1, 0.5 with the names left/center/right/fill and
\* top/middle/bottom/fill, and any other constraint gives fraction 0.
C16_AnchorFractionsAlike ==
    AnchoredUnrotated =>
        /\ cuglChild.data.anchor2 =
               <<AlikeFraction2(child.horizontal), AlikeFraction2(child.vertical)>>
        /\ cuglChild.layout.x_anchor = XAnchorName(child.horizontal)
        /\ cuglChild.layout.y_anchor = YAnchorName(child.vertical)

\* C16 amended: on X the fractions are 0, 0.5, 1, 0.5 for MIN, CENTER, MAX,
\* STRETCH; on Y, where the axis is flipped, they are 1, 0.5, 0, 0.5; the
\* names are left/center/right/fill and top/middle/bottom/fill; any other
\* constraint gives fraction 0, named left on X and bottom on Y.
C16_AnchorFractionsFlippedOnY ==
    AnchoredUnrotated =>
        /\ cuglChild.data.anchor2[1] = AlikeFraction2(child.horizontal)
        /\ cuglChild.data.anchor2[2] =
               IF child.vertical \in {"MIN", "CENTER", "MAX", "STRETCH"}
               THEN 2 - AlikeFraction2(child.vertical)
               ELSE 0
        /\ cuglChild.layout.x_anchor = XAnchorName(child.horizontal)
        /\ cuglChild.layout.y_anchor = YAnchorName(child.vertical)

C16_Witness ==
    /\ AnchoredUnrotated
    /\ child.vertical = "MIN" /\ child.horizontal = "STRETCH"
    /\ cuglChild.data.anchor2 = <<1, 2>>
    /\ cuglChild.layout.y_anchor = "top"

AlignXName(value) ==
    CASE value = "MIN" -> "left" [] value = "MAX" -> "right" [] OTHER -> "center"

AlignYName(value) ==
    CASE value = "MIN" -> "top" [] value = "MAX" -> "bottom" [] OTHER -> "middle"

UnsupportedAlignments == {"SPACE_BETWEEN", "BASELINE"}

Tagged(names, tag) == {i - 1 : i \in {j \in DOMAIN names : HasTag(names[j], tag)}}

\* The children that may fill the up slot: the lone child, else the
\* children tagged up, else the first child.
UpChildren(names) ==
    IF Len(names) = 1 THEN {0}
    ELSE IF Tagged(names, UP) # {} THEN Tagged(names, UP)
    ELSE {0}

ButtonBuilt == built.done /\ built.error = "none" /\ built.type = "Button"

\* C18: the upnode of a Button is a key of its children map, and the child
\* stored under it is the child that fills the up slot.
C18_UpnodeIsKeyOfUpChild ==
    ButtonBuilt =>
        /\ built.upnode \in DOMAIN built.children
        /\ built.children[built.upnode] \in UpChildren(container.names)

\* C19: a Button has a downnode exactly when a child is tagged down (in any
\* letter case), the downnode is then the key of such a child, and a button
\* container without children fails.
C19_DownnodeIffDownChild ==
    /\ ButtonBuilt =>
           /\ built.downnode.defined <=> Tagged(container.names, DOWN) # {}
           /\ built.downnode.defined =>
                  /\ built.downnode.value \in DOMAIN built.children
                  /\ built.children[built.downnode.value] \in
                         Tagged(container.names, DOWN)
    /\ (built.done /\ container.builder = "genButton" /\ container.names = <<>>) =>
           built.error = "button"

\* The flipped position of a shape in a parent of known height.
FlippedPosition(n) == <<n.x, n.parentHeight.value - (n.y + n.height)>>

\* C20: a rectangle or ellipse with a stroke converts to an Anchored Node
\* with the two children fill (a Solid) and stroke (a closed Path), both
\* with anchor (0.5, 0.5) and position (0, 0), the Node carrying the
\* rotation and the flipped position of the source; without stroke it
\* converts to a single Solid without children.
C20_StrokedShapeIsComposite ==
    shapeCode # NoCode =>
        IF shape.strokes > 0
        THEN /\ shapeCode.type = "Node"
             /\ shapeCode.format.type = "Anchored"
             /\ DOMAIN shapeCode.children = {"fill", "stroke"}
             /\ shapeCode.children.fill.type = "Solid"
             /\ shapeCode.children.fill.data.anchor2 = <<1, 1>>
             /\ shapeCode.children.fill.data.position = <<0, 0>>
             /\ shapeCode.children.stroke.type = "Path"
             /\ shapeCode.children.stroke.data.path.closed
             /\ shapeCode.children.stroke.data.anchor2 = <<1, 1>>
             /\ shapeCode.children.stroke.data.position = <<0, 0>>
             /\ shapeCode.data.angle = shape.rotation
             /\ shape.parentHeight.defined =>
                    shapeCode.data.position = FlippedPosition(shape)
        ELSE /\ shapeCode.type = "Solid"
             /\ "children" \notin DOMAIN shapeCode

\* The dimensions of the source that the stroke polygon is computed from:
\* width, height and, for a rectangle, the four radii (upside down).
SourceDims(n) ==
    IF n.type = "RECTANGLE"
    THEN [w |-> n.width, h |-> n.height, tl |-> n.bottomLeftRadius,
          tr |-> n.bottomRightRadius, br |-> n.topRightRadius,
          bl |-> n.topLeftRadius]
    ELSE [w |-> n.width, h |-> n.height]

StrokedComposite == shapeCode # NoCode /\ shapeCode.type = "Node"

\* Every stroke dimension is the source dimension moved by d: inwards for
\* INSIDE, outwards for OUTSIDE, not at all for CENTER.
StrokeDimsMovedBy(d) ==
    LET edge == shapeCode.children.stroke.data.path.vertices
        src == SourceDims(shape)
    IN  \A k \in DOMAIN src :
            edge[k] = CASE shape.strokeAlign = "INSIDE" -> src[k] - d
                        [] shape.strokeAlign = "OUTSIDE" -> src[k] + d
                        [] OTHER -> src[k]

\* C21 as stated: the stroke polygon's dimensions differ from the source's
\* by the epsilon 0.5, whatever the stroke weight.
C21_StrokeDimsDifferByEpsilon ==
    StrokedComposite => StrokeDimsMovedBy(Epsilon)

\* C21 amended: they differ by the stroke weight less the epsilon 0.5
\* (reduced for INSIDE, increased for OUTSIDE, unchanged for CENTER).
C21_StrokeDimsDifferByWeightLessEpsilon ==
    StrokedComposite => StrokeDimsMovedBy(shape.strokeWeight - Epsilon)

C21_Witness ==
    /\ StrokedComposite
    /\ shape.type = "RECTANGLE"
    /\ shape.strokeAlign = "INSIDE"
    /\ shape.strokeWeight = 4 * Epsilon
    /\ shape.topLeftRadius = Epsilon
    /\ shapeCode.children.stroke.data.path.vertices.w = shape.width - 3 * Epsilon
    /\ shapeCode.children.stroke.data.path.vertices.bl = 0 - 2 * Epsilon

\* The children in document order, as Promise.all hands them on when they
\* settle in that order.
InDocumentOrder(names) ==
    [i \in 0..(Len(names) - 1) |-> [name |-> names[i + 1], src |-> i]]

\* C22: in a Float container every entry of the children map belongs to
\* the child at its priority, with the padding and the recentring of that
\* index, and the map is the one assembled when the children settle in
\* document order, in whatever order they have settled.
C22_FloatOrderIsDocumentOrder ==
    floatResult.done =>
        /\ \A k \in DOMAIN floatResult.children :
               LET entry == floatResult.children[k]
               IN  /\ entry.priority = entry.src
                   /\ entry.centre = entry.src
                   /\ entry.padding =
                          FloatPadding(floatNode, entry.src, Len(floatNode.names))
        /\ floatResult.children =
               FloatForEach(floatNode, InDocumentOrder(floatNode.names), 0, EmptyRecord)

C22_Witness ==
    /\ floatResult.done
    /\ gathered.order = <<2, 0, 1>>
    /\ floatNode.names = <<<<"a">>, <<"b">>, <<"a">>>>
    /\ floatResult.children[<<"a", "_", "2">>].priority = 2

\* The padding profiles [left, bottom, right, top] of the first, of an
\* interior and of the last child of a Float container.
FirstProfile(p) ==
    IF p.layoutMode = "HORIZONTAL"
    THEN <<p.paddingLeft, p.paddingBottom, p.itemSpacing, p.paddingTop>>
    ELSE <<p.paddingLeft, p.itemSpacing, p.paddingRight, p.paddingTop>>

InteriorProfile(p) ==
    IF p.layoutMode = "HORIZONTAL"
    THEN <<0, p.paddingBottom, p.itemSpacing, p.paddingTop>>
    ELSE <<p.paddingLeft, p.itemSpacing, p.paddingRight, 0>>

LastProfile(p) ==
    IF p.layoutMode = "HORIZONTAL"
    THEN <<0, p.paddingBottom, p.paddingRight, p.paddingTop>>
    ELSE <<p.paddingLeft, p.paddingBottom, p.paddingRight, 0>>

\* C27: in a Float container with at least two children the child at index
\* 0 has the first profile, the child at index n-1 the last and every other
\* child the interior profile.
C27_PaddingProfileByIndex ==
    (floatResult.done /\ Len(floatNode.names) >= 2) =>
        \A k \in DOMAIN floatResult.children :
            LET entry == floatResult.children[k]
            IN  entry.padding =
                    CASE entry.src = 0 -> FirstProfile(floatNode)
                      [] entry.src = Len(floatNode.names) - 1 -> LastProfile(floatNode)
                      [] OTHER -> InteriorProfile(floatNode)

C27_Witness ==
    /\ floatResult.done
    /\ floatNode.layoutMode = "VERTICAL"
    /\ floatNode.names = <<<<"a">>, <<"b">>, <<"a">>>>
    /\ floatResult.children[<<"a">>].padding = <<1, 5, 3, 4>>
    /\ floatResult.children[<<"b">>].padding = <<1, 5, 3, 0>>
    /\ floatResult.children[<<"a", "_", "2">>].padding = <<1, 2, 3, 0>>

\* The sum over the entries of a children map of the padding along the
\* primary axis: left + right when horizontal, bottom + top when vertical.
RECURSIVE PrimaryPaddingSum(_, _)
PrimaryPaddingSum(children, horizontal) ==
    IF DOMAIN children = {}
    THEN 0
    ELSE LET k == CHOOSE key \in DOMAIN children : TRUE
             pad == children[k].padding
             rest == [key \in (DOMAIN children) \ {k} |-> children[key]]
         IN  (IF horizontal THEN pad[1] + pad[3] ELSE pad[2] + pad[4])
                 + PrimaryPaddingSum(rest, horizontal)

\* C29: in a Float container with n >= 1 children the padding along the
\* primary axis adds up to the two paddings of the container on that axis
\* and n - 1 item spacings.
C29_PrimaryAxisPaddingSum ==
    (floatResult.done /\ Len(floatNode.names) >= 1) =>
        LET horizontal == floatNode.layoutMode = "HORIZONTAL"
            n == Len(floatNode.names)
        IN  PrimaryPaddingSum(floatResult.children, horizontal) =
                (IF horizontal
                 THEN floatNode.paddingLeft + floatNode.paddingRight
                 ELSE floatNode.paddingTop + floatNode.paddingBottom)
                    + (n - 1) * floatNode.itemSpacing

\* num / den to two decimals, in hundredths: the integer r with
\* r - 1/2 <= 100 * num / den < r + 1/2 (den > 0).
NearestHundredth(num, den) ==
    LET bound == 100 * (IF num < 0 THEN 0 - num ELSE num) + 1
    IN  CHOOSE r \in (0 - bound)..bound :
            /\ (2 * r - 1) * den <= 200 * num
            /\ 200 * num < (2 * r + 1) * den

AnchoredChild == cuglChild.laid /\ cuglChild.layout.type = "anchor"

\* C26: the layout entry of a child of an Anchored container (parent W x H,
\* child w x h) is not absolute and its offsets are, to two decimals,
\* (p + e) / W and (q + f) / H, where (p, q) is the position of the output
\* node when the child is unrotated and its flipped centre when it is
\* rotated, and e, f depend on the anchor: unrotated, 0 for left, bottom
\* and fill, w/2 - W/2 for center, w - W for right (h, H for middle and
\* top); rotated, 0 for left and bottom, -W/2 for center and fill, -W for
\* right (-H/2, -H for middle and fill, top).  All lengths doubled here.
C26_AnchorOffsets ==
    AnchoredChild =>
        LET W == child.parent.width
            H == child.parent.height
            rotated == child.rotation # 0
            xa == cuglChild.layout.x_anchor
            ya == cuglChild.layout.y_anchor
            p2 == IF rotated THEN TrueCenter2(child)[1]
                  ELSE cuglChild.data.position2[1]
            q2 == IF rotated THEN FlippedCenter2(child, H)[2]
                  ELSE cuglChild.data.position2[2]
            e2 == IF rotated
                  THEN CASE xa = "left" -> 0
                         [] xa = "right" -> 0 - 2 * W
                         [] OTHER -> 0 - W
                  ELSE CASE xa = "center" -> child.width - W
                         [] xa = "right" -> 2 * child.width - 2 * W
                         [] OTHER -> 0
            f2 == IF rotated
                  THEN CASE ya = "bottom" -> 0
                         [] ya = "top" -> 0 - 2 * H
                         [] OTHER -> 0 - H
                  ELSE CASE ya = "middle" -> child.height - H
                         [] ya = "top" -> 2 * child.height - 2 * H
                         [] OTHER -> 0
        IN  /\ cuglChild.layout.absolute = FALSE
            /\ cuglChild.layout.x_offset = NearestHundredth(p2 + e2, 2 * W)
            /\ cuglChild.layout.y_offset = NearestHundredth(q2 + f2, 2 * H)

C26_Witness ==
    /\ AnchoredChild
    /\ child.rotation = 0
    /\ child.horizontal = "CENTER" /\ child.vertical = "MIN"
    /\ child.width = 1 /\ child.parent.width = 4
    /\ cuglChild.data.position2[1] = 2
    /\ cuglChild.layout.x_offset = 0 - 12

\* What an export of doc produces from the given resource tables: whether
\* it fails, and the nodes it puts out.
ExportFrom(doc, images, fontTable) ==
    LET st == ConvertChildren(doc, 1, [images |-> images, fonts |-> fontTable,
                                       out |-> <<>>, failed |-> FALSE])
    IN  [failed |-> st.failed, out |-> st.out]

\* C25: whatever the resource tables hold when an export starts, and so
\* whatever was exported before, the export of a source tree fails or
\* succeeds, and yields the output tree, exactly as it does from empty
\* tables.
C25_OutputIndependentOfTables ==
    phase = "idle" =>
        \A doc \in Documents :
            ExportFrom(doc, imageHashMap, fontHashMap)
                = ExportFrom(doc, EmptyRecord, EmptyRecord)

\* An export that started with a hash registered under another name.
C25_Witness ==
    /\ phase = "done"
    /\ Len(output) = 1
    /\ output[1].type = "Image"
    /\ output[1].texture \notin textures

\* C28: after a successful export every texture named by an Image of the
\* output is a key of the texture manifest, and every font key named by a
\* Label is a key of the font manifest, with the size of that Label.
C28_ManifestsCoverReferences ==
    phase = "done" =>
        \A i \in DOMAIN output :
            /\ output[i].type = "Image" => output[i].texture \in textures
            /\ output[i].type = "Label" =>
                   /\ output[i].font \in DOMAIN fonts
                   /\ fonts[output[i].font] = output[i].fontSize

\* The polygon of the Solid that genRectangle builds for the shape.
RectanglePolygon ==
    IF shapeCode.type = "Solid"
    THEN shapeCode.data.polygon
    ELSE shapeCode.children.fill.data.polygon

BuiltByGenRectangle ==
    /\ shapeCode # NoCode
    /\ shape.type = "RECTANGLE"
    /\ shapeCode.type \in {"Solid", "Node"}

\* The radius of each corner of the output in the order top-right,
\* top-left, bottom-left, bottom-right: the source's bottom radii are the
\* output's top radii.
OutputRadii ==
    << shape.bottomRightRadius, shape.bottomLeftRadius,
       shape.topLeftRadius, shape.topRightRadius >>

CornerOrder == <<"tr", "tl", "bl", "br">>

VertexCount(r) == IF r = 0 THEN 1 ELSE CurveSegs(r) + 1

\* C24: the polygon of a rectangle lists the corners top-right, top-left,
\* bottom-left, bottom-right, each with 1 vertex when its radius is 0 and
\* curveSegs(radius, pi/2) + 1 vertices when it is positive, the source's
\* top radii serving as the output's bottom radii and vice versa; with
\* four radii 0 the polygon is the four corners of the box.
C24_CornerOrderAndVertexCounts ==
    BuiltByGenRectangle =>
        LET pts == RectanglePolygon.points
            first(i) == IF i = 1 THEN 1
                        ELSE 1 + VertexCount(OutputRadii[1])
                               + (IF i > 2 THEN VertexCount(OutputRadii[2]) ELSE 0)
                               + (IF i > 3 THEN VertexCount(OutputRadii[3]) ELSE 0)
        IN  /\ Len(pts) = first(4) + VertexCount(OutputRadii[4]) - 1
            /\ \A i \in 1..4 :
                   \A k \in 0..(VertexCount(OutputRadii[i]) - 1) :
                       /\ pts[first(i) + k].corner = CornerOrder[i]
                       /\ OutputRadii[i] # 0 =>
                              /\ pts[first(i) + k].r = OutputRadii[i]
                              /\ pts[first(i) + k].ii = k
            /\ (\A i \in 1..4 : OutputRadii[i] = 0) =>
                   pts = << [corner |-> "tr", x |-> shape.width, y |-> shape.height],
                            [corner |-> "tl", x |-> 0, y |-> shape.height],
                            [corner |-> "bl", x |-> 0, y |-> 0],
                            [corner |-> "br", x |-> shape.width, y |-> 0] >>

\* A rectangle whose corners need 4, 4, 3 and 3 vertices.
C24_Witness ==
    /\ BuiltByGenRectangle
    /\ shape.topLeftRadius = 5 * Epsilon
    /\ shape.bottomLeftRadius = 20 * Epsilon
    /\ Len(RectanglePolygon.points) = 14
    /\ RectanglePolygon.points[5].corner = "tl"
    /\ RectanglePolygon.points[5].r = 20 * Epsilon

\* C30: the stroke Path of a stroked rectangle whose four radii are 0 has
\* exactly 4 vertices, and the radii passed to roundedRect for it are 0,
\* for every stroke alignment and weight.
C30_SquareStrokeHasFourVertices ==
    ( /\ BuiltByGenRectangle
      /\ shape.strokes > 0
      /\ \A i \in 1..4 : OutputRadii[i] = 0 ) =>
        LET edge == shapeCode.children.stroke.data.path.vertices
        IN  /\ Len(edge.points) = 4
            /\ edge.tl = 0 /\ edge.tr = 0 /\ edge.br = 0 /\ edge.bl = 0

Title == <<"t", "i", "t", "l", "e">>

Bg == <<"b", "g">>

\* What the scenario says of the converted root apart from the anchors: a
\* Node with format Anchored and exactly the children `title`, a Label at
\* (10, 170), and `bg`, a Solid at (0, 0) whose polygon is the four corners
\* of the 200 x 200 box.
ScenarioTree ==
    /\ frameCode.type = "Node"
    /\ frameCode.format.type = "Anchored"
    /\ DOMAIN frameCode.children = {Title, Bg}
    /\ frameCode.children[Title].type = "Label"
    /\ frameCode.children[Title].data.position2 = <<2 * 200 * 10, 2 * 200 * 170>>
    /\ frameCode.children[Bg].type = "Solid"
    /\ frameCode.children[Bg].data.position2 = <<0, 0>>
    /\ LET pts == frameCode.children[Bg].polygon
       IN  /\ Len(pts) = 4
           /\ <<pts[1].x, pts[1].y>> = <<200 * 200, 200 * 200>>
           /\ <<pts[2].x, pts[2].y>> = <<0, 200 * 200>>
           /\ <<pts[3].x, pts[3].y>> = <<0, 0>>
           /\ <<pts[4].x, pts[4].y>> = <<200 * 200, 0>>

\* C23 as stated: the scenario's tree, with `title` anchored at (0, 0).
C23_EndToEndScenario ==
    frameCode.done =>
        /\ ScenarioTree
        /\ frameCode.children[Title].data.anchor2 = <<0, 0>>

\* Twice the anchor fraction of a child with the given constraints: on x,
\* 0.5 for CENTER and STRETCH, 1 for MAX, 0 otherwise; on y, 1 for MIN,
\* 0.5 for CENTER and STRETCH, 0 otherwise.
ConstraintAnchor2(c) ==
    << CASE c.horizontal \in {"CENTER", "STRETCH"} -> 1
         [] c.horizontal = "MAX" -> 2
         [] OTHER -> 0,
       CASE c.vertical \in {"CENTER", "STRETCH"} -> 1
         [] c.vertical = "MIN" -> 2
         [] OTHER -> 0 >>

\* C23 amended: the scenario's tree, with each child anchored as its
\* constraints say, so `title` has anchor (0, 0) exactly when it is
\* constrained to the left (or scaled) and to the bottom (or scaled).
C23_EndToEndAnchorsFromConstraints ==
    frameCode.done =>
        /\ ScenarioTree
        /\ frameCode.children[Title].data.anchor2 = ConstraintAnchor2(scene.children[1])
        /\ frameCode.children[Bg].data.anchor2 = ConstraintAnchor2(scene.children[2])

\* The scenario with the constraints a new layer has (left, top), the
\* rectangle's conversion settling first.
C23_Witness ==
    /\ frameCode.done
    /\ laidOut.order = <<1, 0>>
    /\ scene.children[1].horizontal = "MIN" /\ scene.children[1].vertical = "MIN"
    /\ frameCode.children[Title].data.anchor2 = <<0, 2>>
    /\ frameCode.children[Title].data.position2 = <<2 * 200 * 10, 2 * 200 * 170>>

=============================================================================
